---- MODULE Spec2Model ----
(***************************************************************************)
(* Model of the migration commands of diesel_cli                           *)
(* (diesel_cli/src/migrations/mod.rs)                                      *)
(* and of the path helpers of diesel_cli/src/main.rs.                      *)
(*                                                                         *)
(* The state machines of this module:                                      *)
(*   - the Generate path: processes running `migration generate` against   *)
(*     one migrations folder (SpecGen: concurrent, SpecGenSeq: one         *)
(*     invocation at a time);                                              *)
(*   - the engine: Run / Revert / Redo / List / Pending against one        *)
(*     database and one migrations folder (SpecEngine), and its schema     *)
(*     regeneration (SpecEngineSchema);                                    *)
(*   - the resolution and the creation of the migrations folder (SpecDir,  *)
(*     SpecSetup);                                                         *)
(*   - find_project_root and convert_absolute_path_to_relative (SpecRoot,  *)
(*     SpecConv).                                                          *)
(* Strings are sequences of one-character strings, so that `starts_with`   *)
(* and `format!` are computed and not assumed.                             *)
(***************************************************************************)
EXTENDS Integers, Sequences, FiniteSets, TLC

\* ------------------------------------------------------------------ bounds
NumMigrations == 3      \* versions 1..NumMigrations exist for the engine
MaxDiskChanges == 1     \* entries the user adds to or removes from the folder
NumProcs == 2           \* concurrent CLI processes running Generate
MaxClock == 1           \* the wall clock runs over seconds 0..MaxClock
MaxGenerates == 2       \* Generate invocations started in one behaviour
MaxSubversion == 1      \* stands for u16::MAX, scaled down for checking

MaxNumber == NumMigrations + 1   \* --number ranges over 0..MaxNumber

Procs == 1..NumProcs

\* ------------------------------------------------------------------ state
VARIABLES
    \* --- Generate path
    clock,        \* Utc::now(), in seconds
    dirs,         \* directories inside the migrations folder (their file names)
    files,        \* scripts written: records [dir, file, content]
    lockFile,     \* TRUE iff <migrations>/.diesel_lock exists
    lockHolder,   \* process holding the exclusive fd lock, 0 if none
    pc,           \* position of each process inside the Generate arm
    args,         \* the command line arguments of each process
    loc,          \* the locals of each process
    result,       \* what run_migration_command returned, "none" while running
    genCount,     \* Generate invocations started so far
    allocs        \* history: the versions allocated without --version, in order

genVars == <<clock, dirs, files, lockFile, lockHolder, pc, args, loc, result, genCount,
             allocs>>

VARIABLES
    \* --- engine (Run / Revert / Redo)
    onDisk,       \* versions of the migration entries present in the folder
    noTx,         \* versions whose metadata says run_in_transaction = false
    mysql,        \* TRUE iff the connection is InferConnection::Mysql
    applied,      \* the applied versions, oldest-applied first
    cmd,          \* the command being executed
    epc,          \* its position
    rl,           \* the locals of redo_migrations / of the Revert loop / of Run
    eresult,      \* result of the migration part of the command
    exit,         \* result of run_migration_command
    h,            \* history: what the command started from and did
    diskChanges,  \* entries added or removed by the user so far
    out,          \* what List or Pending printed
    last          \* history: the command that ran before this one

engVars == <<onDisk, noTx, mysql, applied, cmd, epc, rl, eresult, exit, h, diskChanges,
             out, last>>

VARIABLES
    \* --- resolution of the migrations folder
    rs,           \* the inputs of migrations_dir, its position and its result
    sd            \* create_migrations_dir: the folder, its content, position and result

VARIABLES
    \* --- the path helpers of main.rs
    pr,           \* find_project_root: working directory, marker files, position, results
    cv            \* convert_absolute_path_to_relative: the two paths, position, result

pathVars == <<pr, cv>>

dirVars == <<rs, sd, pathVars>>

vars == <<genVars, engVars, dirVars>>

\* ---------------------------------------------------------------- strings
None == <<"None">>

\* str::starts_with
StartsWith(s, prefix) ==
    /\ Len(prefix) <= Len(s)
    /\ \A i \in 1..Len(prefix) : s[i] = prefix[i]

HexDigits == <<"0","1","2","3","4","5","6","7","8","9","a","b","c","d","e","f">>

\* format!("{subversion:04x}")
Hex4(n) ==
    << HexDigits[((n \div 4096) % 16) + 1], HexDigits[((n \div 256) % 16) + 1],
       HexDigits[((n \div 16) % 16) + 1],   HexDigits[(n % 16) + 1] >>

\* two decimal digits, zero padded (the %S, %M, %H, %m, %d fields)
Dec2(n) == << HexDigits[((n \div 10) % 10) + 1], HexDigits[(n % 10) + 1] >>

\* TIMESTAMP_FORMAT = "%Y-%m-%d-%H%M%S"; the clock counts the seconds of the
\* first minute of 2024-01-01.
TIMESTAMP_FORMAT(now) ==
    <<"2","0","2","4">> \o <<"-">> \o Dec2(1) \o <<"-">> \o Dec2(1) \o <<"-">>
        \o Dec2(0) \o Dec2(0) \o Dec2(now)

\* the version of an entry `<version>_<name>`: the text before the first `_`
VersionOf(folder) ==
    LET underscores == { i \in 1..Len(folder) : folder[i] = "_" }
    IN  IF underscores = {} THEN folder
        ELSE SubSeq(folder, 1, (CHOOSE i \in underscores : \A j \in underscores : i <= j) - 1)

\* ------------------------------------------------------------------ inputs
MigrationNames == { <<"a">>, <<"b">> }

\* versions given with --version: a bare timestamp, and one that looks like
\* an allocated version
ExplicitVersions ==
    { TIMESTAMP_FORMAT(0),
      TIMESTAMP_FORMAT(0) \o <<"-">> \o Hex4(0) }

\* the command lines tried: every name with every version, and --no-down and
\* --diff-schema on the plain command
GenerateArgs ==
    { [migration_name |-> n, version |-> v, no_down |-> FALSE, schema_rs |-> FALSE] :
        n \in MigrationNames, v \in ExplicitVersions \cup {None} }
    \cup
    { [migration_name |-> <<"a">>, version |-> None, no_down |-> nd, schema_rs |-> ds] :
        nd \in BOOLEAN, ds \in BOOLEAN }

\* ------------------------------------------------------- create_migration_dir
\* mutant: the last subversion never tried
MAX_MIGRATIONS_PER_SEC_exclusive == MaxSubversion - 1

MAX_MIGRATIONS_PER_SEC == MaxSubversion

\* mutant: the folder name compared for equality instead of starts_with
is_duplicate_version_exact(full_version, migration_folders) ==
    \E folder \in migration_folders : folder = full_version

\* mutant: no folder ever counts as a duplicate
is_duplicate_version_never(full_version, migration_folders) == FALSE

is_duplicate_version(full_version, migration_folders) ==
    \E folder \in migration_folders : StartsWith(folder, full_version)

\* format!("{version}-{subversion:04x}")
full_version(version, subversion) == version \o <<"-">> \o Hex4(subversion)

\* format!("{version}_{migration_name}")
versioned_name(version, migration_name) == version \o <<"_">> \o migration_name

\* mutant: the first subversion taken without looking at the folders
subversion_loop_no_probe(version, migration_folders, subversion) ==
    [err |-> "none", version |-> version \o <<"-">> \o Hex4(subversion)]

RECURSIVE subversion_loop(_, _, _)
\* for subversion in 0..=MAX_MIGRATIONS_PER_SEC: the first full version that is
\* no duplicate, or TooManyMigrations when the range is exhausted
subversion_loop(version, migration_folders, subversion) ==
    IF subversion > MAX_MIGRATIONS_PER_SEC
    THEN [err |-> "TooManyMigrations", version |-> <<>>]
    ELSE IF is_duplicate_version(full_version(version, subversion), migration_folders)
         THEN subversion_loop(version, migration_folders, subversion + 1)
         ELSE [err |-> "none", version |-> full_version(version, subversion)]

\* mutant: an explicit version given a subversion like a timestamp
allocate_always_suffixed(version, explicit_version, migration_folders) ==
    subversion_loop(version, migration_folders, 0)

\* The version create_migration_dir settles on, from the listing it read.
allocate(version, explicit_version, migration_folders) ==
    IF explicit_version
    THEN IF is_duplicate_version(version, migration_folders)
         THEN [err |-> "DuplicateMigrationVersion", version |-> <<>>]
         ELSE [err |-> "none", version |-> version]
    ELSE subversion_loop(version, migration_folders, 0)

\* ---------------------------------------------------------------- Generate
NoArgs == [migration_name |-> <<>>, version |-> None, no_down |-> FALSE, schema_rs |-> FALSE]
\* the locals of an invocation; dirs0, files0 and lock0 are history: the
\* entries, the scripts and
\* the lock file the invocation found when it started
NoLoc  == [version |-> <<>>, folders |-> {}, path |-> <<>>, up_sql |-> <<>>, down_sql |-> <<>>,
           files0 |-> {}, lock0 |-> FALSE, dirs0 |-> {}]

\* the scripts of an entry generated with a down file and no prefill
EntryFiles(dir) ==
    { [dir |-> dir, file |-> "up.sql", content |-> <<"-- Your SQL goes here">>],
      [dir |-> dir, file |-> "down.sql",
       content |-> <<"-- This file should undo anything in up.sql">>] }

\* the folders the behaviours start from: empty, one entry with a version
\* given by hand, and every subversion of second 0 taken
InitStores ==
    { {},
      { versioned_name(TIMESTAMP_FORMAT(0), <<"b">>) },
      { versioned_name(full_version(TIMESTAMP_FORMAT(0), i), <<"a">>) :
          i \in 0..MAX_MIGRATIONS_PER_SEC } }

GenIdle ==
    /\ clock = 0
    /\ lockFile = FALSE
    /\ lockHolder = 0
    /\ pc = [p \in Procs |-> "idle"]
    /\ args = [p \in Procs |-> NoArgs]
    /\ loc = [p \in Procs |-> NoLoc]
    /\ result = [p \in Procs |-> "none"]
    /\ genCount = 0
    /\ allocs = <<>>

InitGen ==
    /\ dirs \in InitStores
    /\ files = UNION { EntryFiles(d) : d \in dirs }
    /\ GenIdle

\* the Generate variables while only the engine is looked at
InitGenParked ==
    /\ dirs = {}
    /\ files = {}
    /\ GenIdle

\* an exit of the Generate arm with `res`; every local goes out of scope
Return(p, res) ==
    /\ pc' = [pc EXCEPT ![p] = "done"]
    /\ result' = [result EXCEPT ![p] = res]

\* `diesel migration generate NAME [--version V] [--no-down] [--diff-schema]`
GenStart(p) ==
    /\ pc[p] = "idle"
    /\ genCount < MaxGenerates
    /\ \E a \in GenerateArgs : args' = [args EXCEPT ![p] = a]
    /\ loc' = [loc EXCEPT ![p] = [NoLoc EXCEPT !.files0 = files, !.lock0 = lockFile,
                                                !.dirs0 = dirs]]
    /\ result' = [result EXCEPT ![p] = "none"]
    /\ pc' = [pc EXCEPT ![p] = "lock_open"]
    /\ genCount' = genCount + 1
    /\ UNCHANGED <<clock, dirs, files, lockFile, lockHolder, allocs>>

\* migration_folder_lock: File::create_new, falling back to File::open
migration_folder_lock(p) ==
    /\ pc[p] = "lock_open"
    /\ \/ /\ lockFile' = TRUE
          /\ pc' = [pc EXCEPT ![p] = "lock_write"]
          /\ UNCHANGED result
       \/ /\ Return(p, "IoError")
          /\ UNCHANGED lockFile
    /\ UNCHANGED <<clock, dirs, files, lockHolder, args, loc, genCount, allocs>>

\* mutant: the error of lock.write() noted and the arm carried on
LockWrite_no_return(p) ==
    /\ pc[p] = "lock_write"
    /\ \/ /\ lockHolder = 0
          /\ lockHolder' = p
          /\ pc' = [pc EXCEPT ![p] = "drop_guard"]
          /\ UNCHANGED result
       \/ /\ result' = [result EXCEPT ![p] = "FailedToAcquireMigrationFolderLock"]
          /\ pc' = [pc EXCEPT ![p] = "diff"]
          /\ UNCHANGED lockHolder
    /\ UNCHANGED <<clock, dirs, files, lockFile, args, loc, genCount, allocs>>

\* lock.write(): blocks until the exclusive lock is free, then takes it
LockWrite(p) ==
    /\ pc[p] = "lock_write"
    /\ \/ /\ lockHolder = 0
          /\ lockHolder' = p
          /\ pc' = [pc EXCEPT ![p] = "drop_guard"]
          /\ UNCHANGED result
       \/ /\ Return(p, "FailedToAcquireMigrationFolderLock")
          /\ UNCHANGED lockHolder
    /\ UNCHANGED <<clock, dirs, files, lockFile, args, loc, genCount, allocs>>

\* `let _ = lock.write()...?;` binds nothing: the write guard is a temporary,
\* dropped (and the lock released) at the end of the statement.
DropGuardAtLet_leaks(p) ==
    /\ lockHolder' = lockHolder
    /\ pc' = [pc EXCEPT ![p] = "diff"]

DropGuardAtLet(p) ==
    /\ lockHolder' = 0
    /\ pc' = [pc EXCEPT ![p] = "diff"]

DropGuard(p) ==
    /\ pc[p] = "drop_guard"
    /\ DropGuardAtLet(p)
    /\ UNCHANGED <<clock, dirs, files, lockFile, args, loc, result, genCount, allocs>>

\* mutant: the diff computed after create_migration_dir made the entry
DiffSchema_after_create_dir(p) ==
    /\ pc[p] = "diff"
    /\ IF args[p].schema_rs
       THEN \/ /\ loc' = [loc EXCEPT ![p].up_sql = <<"diff_up">>, ![p].down_sql = <<"diff_down">>]
               /\ pc' = [pc EXCEPT ![p] = "version"]
               /\ UNCHANGED <<result, dirs>>
            \/ /\ \E e \in {"NoSchemaKeyFound", "DiffSchemaError"} : Return(p, e)
               /\ dirs' = dirs \cup
                     {versioned_name(IF args[p].version # None THEN args[p].version
                                     ELSE TIMESTAMP_FORMAT(clock),
                                     args[p].migration_name)}
               /\ UNCHANGED loc
       ELSE /\ loc' = [loc EXCEPT ![p].up_sql = <<>>, ![p].down_sql = <<>>]
            /\ pc' = [pc EXCEPT ![p] = "version"]
            /\ UNCHANGED <<result, dirs>>
    /\ UNCHANGED <<clock, files, lockFile, lockHolder, args, genCount, allocs>>

\* the --diff-schema branch: (up_sql, down_sql) from the schema differ, or empty
DiffSchema(p) ==
    /\ pc[p] = "diff"
    /\ IF args[p].schema_rs
       THEN \/ /\ loc' = [loc EXCEPT ![p].up_sql = <<"diff_up">>, ![p].down_sql = <<"diff_down">>]
               /\ pc' = [pc EXCEPT ![p] = "version"]
               /\ UNCHANGED result
            \/ /\ \E e \in {"NoSchemaKeyFound", "DiffSchemaError"} : Return(p, e)
               /\ UNCHANGED loc
       ELSE /\ loc' = [loc EXCEPT ![p].up_sql = <<>>, ![p].down_sql = <<>>]
            /\ pc' = [pc EXCEPT ![p] = "version"]
            /\ UNCHANGED result
    /\ UNCHANGED <<clock, dirs, files, lockFile, lockHolder, args, genCount, allocs>>

\* migration_version: the given version, or Utc::now() in TIMESTAMP_FORMAT
migration_version(p) ==
    /\ pc[p] = "version"
    /\ loc' = [loc EXCEPT ![p].version =
                 IF args[p].version # None THEN args[p].version ELSE TIMESTAMP_FORMAT(clock)]
    /\ pc' = [pc EXCEPT ![p] = "read_dir"]
    /\ UNCHANGED <<clock, dirs, files, lockFile, lockHolder, args, result, genCount, allocs>>

\* create_migration_dir, first half: migrations_dir.read_dir()
ReadDir(p) ==
    /\ pc[p] = "read_dir"
    /\ \/ /\ loc' = [loc EXCEPT ![p].folders = dirs]
          /\ pc' = [pc EXCEPT ![p] = "create"]
          /\ UNCHANGED result
       \/ /\ Return(p, "IoError")
          /\ UNCHANGED loc
    /\ UNCHANGED <<clock, dirs, files, lockFile, lockHolder, args, genCount, allocs>>

\* mutant: fs::create_dir_all, which succeeds on a directory that exists
create_dir_all(path, store) == TRUE

\* whether fs::create_dir can create `path`: not when it exists
create_dir(path, store) == path \notin store

\* create_migration_dir, second half: the version check on the listing read,
\* then fs::create_dir, which fails when the path exists
CreateDir(p) ==
    /\ pc[p] = "create"
    /\ LET a == allocate(loc[p].version, args[p].version # None, loc[p].folders)
           path == versioned_name(a.version, args[p].migration_name)
       IN  IF a.err # "none"
           THEN Return(p, a.err) /\ UNCHANGED <<dirs, loc, allocs>>
           ELSE \/ /\ create_dir(path, dirs)
                   /\ dirs' = dirs \cup {path}
                   /\ loc' = [loc EXCEPT ![p].path = path]
                   /\ pc' = [pc EXCEPT ![p] = "write_up"]
                   /\ allocs' = IF args[p].version = None
                                THEN Append(allocs, a.version) ELSE allocs
                   /\ UNCHANGED result
                \/ /\ Return(p, "IoError")
                   /\ UNCHANGED <<dirs, loc, allocs>>
    /\ UNCHANGED <<clock, files, lockFile, lockHolder, args, genCount>>

\* mutant: the prefill when there is one, the placeholder otherwise
script_content_prefill_or_placeholder(placeholder, sql) ==
    IF sql # <<>> THEN sql ELSE <<placeholder>>

\* the two write_all calls on a script: the placeholder line, then the SQL
\* handed in (empty without --diff-schema)
script_content(placeholder, sql) == <<placeholder>> \o sql

\* generate_sql_migration: up.sql
WriteUp(p) ==
    /\ pc[p] = "write_up"
    /\ \/ /\ files' = files \cup
                {[dir |-> loc[p].path, file |-> "up.sql",
                  content |-> script_content("-- Your SQL goes here", loc[p].up_sql)]}
          /\ pc' = [pc EXCEPT ![p] = "write_down"]
          /\ UNCHANGED result
       \/ /\ Return(p, "IoError")
          /\ UNCHANGED files
    /\ UNCHANGED <<clock, dirs, lockFile, lockHolder, args, loc, genCount, allocs>>

\* mutant: the down script written whatever --no-down says
with_down_always(no_down) == TRUE

\* `generate_sql_migration(&migration_dir, !no_down, up_sql, down_sql)`
with_down(no_down) == ~no_down

\* generate_sql_migration: down.sql when with_down, then Ok(())
WriteDown(p) ==
    /\ pc[p] = "write_down"
    /\ IF with_down(args[p].no_down)
       THEN \/ /\ files' = files \cup
                     {[dir |-> loc[p].path, file |-> "down.sql",
                       content |-> script_content("-- This file should undo anything in up.sql",
                                                  loc[p].down_sql)]}
               /\ Return(p, "Ok")
            \/ /\ Return(p, "IoError")
               /\ UNCHANGED files
       ELSE Return(p, "Ok") /\ UNCHANGED files
    /\ UNCHANGED <<clock, dirs, lockFile, lockHolder, args, loc, genCount, allocs>>

\* the process exits; the same slot may run another invocation
Exit(p) ==
    /\ pc[p] = "done"
    /\ pc' = [pc EXCEPT ![p] = "idle"]
    /\ args' = [args EXCEPT ![p] = NoArgs]
    /\ loc' = [loc EXCEPT ![p] = NoLoc]
    /\ result' = [result EXCEPT ![p] = "none"]
    /\ UNCHANGED <<clock, dirs, files, lockFile, lockHolder, genCount, allocs>>

\* the wall clock advances
Tick ==
    /\ clock < MaxClock
    /\ clock' = clock + 1
    /\ UNCHANGED <<dirs, files, lockFile, lockHolder, pc, args, loc, result, genCount, allocs>>

\* ------------------------------------------------------------ migrations_dir
\* paths are sequences of components; an absolute path starts with "/"
Paths == { <<"/", "srv", "migrations">>, <<"/", "tmp", "m">>, <<"db", "migrations">> }

\* Path::is_relative
is_relative(path) == path = <<>> \/ Head(path) # "/"

\* Path::join with a relative path
join(base, path) == base \o path

\* the directory of the configuration file, `path.parent()` in Config::read
ConfigParent == <<"/", "proj">>

\* the working directory of the command, below the directory of the
\* configuration file
CurrentDir == <<"/", "proj", "sub">>

\* mutant: a relative directory resolved against the working directory
set_relative_path_base_cwd(dir, base) ==
    IF is_relative(dir) THEN join(CurrentDir, dir) ELSE dir

\* MigrationsDirectory::set_relative_path_base
set_relative_path_base(dir, base) == IF is_relative(dir) THEN join(base, dir) ELSE dir

\* the environment: MIGRATION_DIRECTORY unset, set to text, or set to bytes
\* that are not valid Unicode
EnvValues ==
    { [set |-> FALSE, unicode |-> TRUE, value |-> <<>>] }
    \cup { [set |-> TRUE, unicode |-> u, value |-> v] : u \in BOOLEAN, v \in Paths }

\* the configuration file: absent, unreadable, not valid TOML, or read with
\* or without a migrations_directory section
ConfigValues ==
    { [state |-> st, dir |-> None] : st \in {"absent", "io_error", "toml_error", "read"} }
    \cup { [state |-> "read", dir |-> d] : d \in Paths }

\* FileBasedMigrations::find_migrations_directory: a folder found by the
\* search from the working directory upward, or none
FoundValues == { None, <<"/", "proj", "migrations">> }

NoEnv == [set |-> FALSE, unicode |-> TRUE, value |-> <<>>]
NoConfig == [state |-> "absent", dir |-> None]
NoResult == [err |-> "none", path |-> None]
NoRs == [pc |-> "idle", migration_dir |-> None, env |-> NoEnv, config |-> NoConfig,
         found |-> None, result |-> NoResult]

\* what the migrations folder may hold: the placeholder of older versions
\* as a file, something else of that name, the placeholder of today, a
\* migration entry with a script, and a file of the user
StoreItems ==
    { [name |-> ".gitkeep", type |-> "file"],
      [name |-> ".gitkeep", type |-> "dir"],
      [name |-> ".keep", type |-> "file"],
      [name |-> "entry", type |-> "dir"],
      [name |-> "entry/up.sql", type |-> "file"],
      [name |-> "README.md", type |-> "file"] }

\* a folder holds one thing of a name, and a script only inside its entry
StoreContents ==
    { c \in SUBSET StoreItems :
        /\ \A x, y \in c : x.name = y.name => x = y
        /\ ([name |-> "entry/up.sql", type |-> "file"] \in c =>
               [name |-> "entry", type |-> "dir"] \in c) }

\* the entries of the folder and what is inside them
MigrationEntries(content) == { x \in content : x.name \in {"entry", "entry/up.sql"} }

NoSd == [pc |-> "idle", exists |-> FALSE, content |-> {}, exists0 |-> FALSE, content0 |-> {},
         result |-> "none", warned |-> FALSE]

\* a search that was not made
NotSearched == [ok |-> FALSE, error |-> "not searched", path |-> <<>>, probes |-> 0]

\* no lookup of the project root and no conversion of a path under way
NoPr == [pc |-> "idle"]

NoCv == [pc |-> "idle"]

InitDirParked == rs = NoRs /\ sd = NoSd /\ pr = NoPr /\ cv = NoCv

\* env::var("MIGRATION_DIRECTORY").map(PathBuf::from).ok(): Some only for a
\* variable that is set and valid Unicode
env_var(env) == IF env.set /\ env.unicode THEN env.value ELSE None

\* Config::read: an error, or the configuration with the directory made
\* absolute; the default configuration when the file does not exist
Config_read(config) ==
    CASE config.state = "io_error"   -> [err |-> "IoError", dir |-> None]
      [] config.state = "toml_error" -> [err |-> "TomlError", dir |-> None]
      [] config.state = "absent"     -> [err |-> "none", dir |-> None]
      [] OTHER -> [err |-> "none",
                   dir |-> IF config.dir = None THEN None
                           ELSE set_relative_path_base(config.dir, ConfigParent)]

\* migrations_dir: the command line, then the environment, then diesel.toml,
\* then the search of the diesel_migrations crate
migrations_dir(migration_dir, env, config, found) ==
    IF migration_dir # None THEN [err |-> "none", path |-> migration_dir]
    ELSE IF env_var(env) # None THEN [err |-> "none", path |-> env_var(env)]
    ELSE LET c == Config_read(config)
         IN  IF c.err # "none" THEN [err |-> c.err, path |-> None]
             ELSE IF c.dir # None THEN [err |-> "none", path |-> c.dir]
             ELSE IF found # None THEN [err |-> "none", path |-> found]
             ELSE [err |-> "MigrationDirectoryNotFound", path |-> None]

\* a command is started with some command line, environment, configuration
\* file and working directory
DirStart ==
    /\ rs.pc = "idle"
    /\ \E m \in Paths \cup {None}, e \in EnvValues, c \in ConfigValues, f \in FoundValues :
          rs' = [NoRs EXCEPT !.pc = "resolve", !.migration_dir = m, !.env = e,
                             !.config = c, !.found = f]
    /\ UNCHANGED <<genVars, engVars, sd, pathVars>>

\* conn_and_migration_dir calls migrations_dir
DirResolve ==
    /\ rs.pc = "resolve"
    /\ rs' = [rs EXCEPT !.pc = "done",
                        !.result = migrations_dir(rs.migration_dir, rs.env, rs.config, rs.found)]
    /\ UNCHANGED <<genVars, engVars, sd, pathVars>>

\* the command ends
DirExit ==
    /\ rs.pc = "done"
    /\ rs' = NoRs
    /\ UNCHANGED <<genVars, engVars, sd, pathVars>>

\* ----------------------------------------------------- create_migrations_dir
\* `diesel setup` or `diesel migration generate` on some folder: it exists
\* with some content, or it does not
SetupStart ==
    /\ sd.pc = "idle"
    /\ \E e \in BOOLEAN, c \in StoreContents :
          /\ (~e => c = {})
          /\ sd' = [NoSd EXCEPT !.pc = "resolve", !.exists = e, !.content = c,
                                !.exists0 = e, !.content0 = c]
    /\ UNCHANGED <<genVars, engVars, rs, pathVars>>

\* the folder is what migrations_dir answers, or `migrations` under the
\* project root, which find_project_root may fail to find
SetupResolve ==
    /\ sd.pc = "resolve"
    /\ \/ sd' = [sd EXCEPT !.pc = "branch"]
       \/ sd' = [sd EXCEPT !.pc = "done", !.result = "ProjectRootNotFound"]
    /\ UNCHANGED <<genVars, engVars, rs, pathVars>>

\* mutant: every placeholder taken for the legacy one
legacy_placeholder_any(entry) == entry.name \in {".gitkeep", ".keep"}

\* `file_type.is_file() && entry.file_name() == ".gitkeep"`
legacy_placeholder(entry) == entry.type = "file" /\ entry.name = ".gitkeep"

\* `if dir.exists()`: the cleanup. read_dir may fail and an entry may fail to
\* be read, and then nothing is found; fs::remove_file may fail, which is
\* reported as a warning
SetupCleanup ==
    /\ sd.pc = "branch"
    /\ sd.exists
    /\ \/ sd' = [sd EXCEPT !.pc = "done", !.result = "Ok"]
       \/ \E found \in { x \in sd.content : legacy_placeholder(x) } :
             \/ sd' = [sd EXCEPT !.pc = "done", !.result = "Ok",
                                 !.content = sd.content \ {found}]
             \/ sd' = [sd EXCEPT !.pc = "done", !.result = "Ok", !.warned = TRUE]
    /\ UNCHANGED <<genVars, engVars, rs, pathVars>>

\* `else`: create_migrations_directory, fs::create_dir_all
SetupCreateDir ==
    /\ sd.pc = "branch"
    /\ ~sd.exists
    /\ \/ sd' = [sd EXCEPT !.pc = "keep", !.exists = TRUE]
       \/ sd' = [sd EXCEPT !.pc = "done", !.result = "IoError"]
    /\ UNCHANGED <<genVars, engVars, rs, pathVars>>

\* create_migrations_directory: fs::File::create of `.keep`
SetupKeep ==
    /\ sd.pc = "keep"
    /\ \/ sd' = [sd EXCEPT !.pc = "done", !.result = "Ok",
                            !.content = sd.content \cup {[name |-> ".keep", type |-> "file"]}]
       \/ sd' = [sd EXCEPT !.pc = "done", !.result = "IoError"]
    /\ UNCHANGED <<genVars, engVars, rs, pathVars>>

\* the command goes on with the folder, or ends with the error
SetupExit ==
    /\ sd.pc = "done"
    /\ sd' = NoSd
    /\ UNCHANGED <<genVars, engVars, rs, pathVars>>

\* ------------------------------------------------------------------ engine
Versions == 1..NumMigrations

Min(a, b) == IF a < b THEN a ELSE b

Range(s) == { s[i] : i \in 1..Len(s) }

Front(s) == SubSeq(s, 1, Len(s) - 1)

RECURSIVE SetToSortedSeq(_)
\* the elements of a set of versions, ascending
SetToSortedSeq(S) ==
    IF S = {} THEN <<>>
    ELSE LET m == CHOOSE x \in S : \A y \in S : x <= y
         IN  <<m>> \o SetToSortedSeq(S \ {m})

RECURSIVE InsertSorted(_, _)
InsertSorted(v, s) ==
    IF s = <<>> THEN <<v>>
    ELSE IF v < Head(s) THEN <<v>> \o s
    ELSE <<Head(s)>> \o InsertSorted(v, Tail(s))

RECURSIVE SortAscending(_)
SortAscending(s) ==
    IF s = <<>> THEN <<>> ELSE InsertSorted(Head(s), SortAscending(Tail(s)))

IsAscending(s) == \A i, j \in 1..Len(s) : i < j => s[i] < s[j]

NoCmd == [kind |-> "none", all |-> FALSE, number |-> 0]
NoRl  == [versions_to_revert |-> <<>>, use_tx |-> FALSE, tx_snapshot |-> <<>>,
          reverted |-> <<>>, i |-> 0, migrations |-> <<>>]
\* the schema regeneration of a command: what it was given and what it left
NoRegen == [ran |-> FALSE]

NoH   == [applied0 |-> <<>>, disk0 |-> {}, reapplied |-> <<>>, reread |-> {},
          rereadDone |-> FALSE, fault |-> FALSE, unknown |-> 0,
          stop |-> FALSE, after_stop |-> 0,
          regen |-> NoRegen]

\* history: revert_last_migration is called inside a number loop; the calls
\* made after the loop was answered NoMigrationRun are counted
Called(hh) == [hh EXCEPT !.after_stop = IF hh.stop THEN @ + 1 ELSE @]

\* what is kept of the previous command: a Run that succeeded with the
\* entries it read, a Revert with the versions it reverted, or another command
NoLast == [kind |-> "none", versions |-> {}]

EngIdle ==
    /\ cmd = NoCmd
    /\ epc = "idle"
    /\ rl = NoRl
    /\ eresult = "none"
    /\ exit = "none"
    /\ h = NoH
    /\ diskChanges = 0
    /\ out = <<>>
    /\ last = NoLast

\* a database with nothing applied yet, any backend, any metadata
InitEngine ==
    /\ onDisk \in SUBSET Versions
    /\ noTx \in {{}} \cup {{v} : v \in Versions}
    /\ mysql \in BOOLEAN
    /\ applied = <<>>
    /\ EngIdle

\* the engine's variables while only Generate is looked at
InitEngineParked ==
    /\ onDisk = {}
    /\ noTx = {}
    /\ mysql = FALSE
    /\ applied = <<>>
    /\ EngIdle

\* MigrationHarness::applied_migrations
applied_migrations == applied

\* What MigrationHarness::revert_last_migration can answer in this state:
\* NoMigrationRun when nothing is applied, UnknownMigrationVersion when the
\* last applied version has no entry on disk, else the version reverted or
\* the failure of its down script.
revert_last_migration ==
    IF applied = <<>> THEN { [err |-> "NoMigrationRun", v |-> 0] }
    ELSE LET v == applied[Len(applied)]
         IN  IF v \notin onDisk
             THEN { [err |-> "UnknownMigrationVersion", v |-> v] }
             ELSE { [err |-> "none", v |-> v], [err |-> "MigrationExecutionFailed", v |-> v] }

\* an answer that is a failure of the database or of the store, as opposed to
\* success and to "nothing left to revert"
IsFault(err) == err \notin {"none", "NoMigrationRun"}

\* the applied sequence after revert_last_migration answered `o`
AfterRevert(o) == IF o.err = "none" THEN Front(applied) ELSE applied

\* mutant: every on-disk entry counted as pending, applied or not
pending_migrations_all_on_disk == SetToSortedSeq(onDisk)

\* the pending migrations of run_pending_migrations: on disk, not applied, ascending
pending_migrations == SetToSortedSeq(onDisk \ Range(applied))

\* the migration part of a command failed with `e`: `?` leaves
\* run_migration_command before the schema is regenerated
Fail(e) ==
    /\ eresult' = e
    /\ exit' = e
    /\ epc' = "done"

\* the migration part of a command succeeded
Succeed ==
    /\ eresult' = "Ok"
    /\ epc' = "regen"
    /\ UNCHANGED exit

\* mutant: every arm of run_migration_command takes the lock of the store
TakesStoreLock_every_arm(kind) == TRUE

\* the arms of run_migration_command that call migration_folder_lock and
\* lock.write(): Generate alone
TakesStoreLock(kind) == kind = "generate"

\* `diesel migration run | revert | redo | list | pending`
EngStart ==
    /\ epc = "idle"
    /\ \E k \in {"run", "revert", "redo", "list", "pending"}, a \in BOOLEAN, n \in 0..MaxNumber :
          \* an arm that takes the lock blocks in lock.write() while it is held
          /\ (TakesStoreLock(k) => lockHolder = 0)
          /\ (k \in {"run", "list", "pending"} => ~a /\ n = 0)
          /\ (a => n = 1)   \* --all conflicts with --number: number is its default
          /\ cmd' = [kind |-> k, all |-> a, number |-> n]
          /\ epc' = k
          \* the previous command is remembered while a Run or a Pending follows it
          /\ last' = IF k \in {"run", "pending"} THEN last ELSE NoLast
    /\ rl' = NoRl
    /\ h' = [NoH EXCEPT !.applied0 = applied]
    /\ eresult' = "none"
    /\ exit' = "none"
    /\ UNCHANGED <<onDisk, noTx, mysql, applied, diskChanges, out>>

\* ---- Run: run_migrations_with_output -> run_pending_migrations
RunBegin ==
    /\ epc = "run"
    /\ rl' = [rl EXCEPT !.migrations = pending_migrations]
    /\ h' = [h EXCEPT !.disk0 = onDisk]
    /\ epc' = "run_apply"
    /\ UNCHANGED <<onDisk, noTx, mysql, applied, cmd, eresult, exit, diskChanges, out, last>>

\* mutant: the error of run_pending_migrations dropped
run_migrations_with_output_swallows(err) == "Ok"

\* run_migrations_with_output: `.map(|_| ()).map_err(Error::MigrationError)`,
\* the applied versions are dropped from Ok, an error is handed on
run_migrations_with_output(err) == IF err = "none" THEN "Ok" ELSE err

\* run_pending_migrations applies the pending migrations one by one and stops
\* at the first that fails
RunApply ==
    /\ epc = "run_apply"
    /\ IF rl.migrations = <<>>
       THEN Succeed /\ UNCHANGED <<applied, rl, h>>
       ELSE \/ /\ applied' = Append(applied, Head(rl.migrations))
               /\ rl' = [rl EXCEPT !.migrations = Tail(rl.migrations)]
               /\ UNCHANGED <<epc, eresult, exit, h>>
            \/ /\ LET r == run_migrations_with_output("MigrationExecutionFailed")
                  IN  IF r = "Ok" THEN Succeed ELSE Fail(r)
               /\ h' = [h EXCEPT !.fault = TRUE]
               /\ UNCHANGED <<applied, rl>>
    /\ UNCHANGED <<onDisk, noTx, mysql, cmd, diskChanges, out, last>>

\* ---- Revert
\* mutant: --all ignored, the number loop always taken
RevertBranch_ignores_all(all) == "revert_loop"

\* `if all { revert_all_migrations_with_output } else { for _ in 0..number ... }`
RevertBranch(all) == IF all THEN "revert_all" ELSE "revert_loop"

RevertBegin ==
    /\ epc = "revert"
    /\ epc' = RevertBranch(cmd.all)
    /\ UNCHANGED <<onDisk, noTx, mysql, applied, cmd, rl, eresult, exit, h, diskChanges, out, last>>

\* revert_all_migrations: revert the last applied migration until none is left
RevertAll ==
    /\ epc = "revert_all"
    /\ \E o \in revert_last_migration :
          CASE o.err = "none" ->
                  /\ applied' = AfterRevert(o)
                  /\ UNCHANGED <<epc, eresult, exit, h>>
            [] o.err = "NoMigrationRun" ->
                  Succeed /\ UNCHANGED <<applied, h>>
            [] OTHER ->
                  /\ Fail(o.err)
                  /\ h' = [h EXCEPT !.fault = IsFault(o.err)]
                  /\ UNCHANGED applied
    /\ UNCHANGED <<onDisk, noTx, mysql, cmd, rl, diskChanges, out, last>>

\* mutant: NoMigrationRun returned like any other error
RevertLoopArm_no_break(err) == IF err = "none" THEN "continue" ELSE "return"

\* the match inside `for _ in 0..number`: what an answer of
\* revert_migration_with_output makes the loop do
RevertLoopArm(err) ==
    IF err = "none" THEN "continue"
    ELSE IF err = "NoMigrationRun" THEN "break"
    ELSE "return"

RevertLoop ==
    /\ epc = "revert_loop"
    /\ IF rl.i >= cmd.number
       THEN Succeed /\ UNCHANGED <<applied, rl, h>>
       ELSE \E o \in revert_last_migration :
              CASE RevertLoopArm(o.err) = "continue" ->
                      /\ applied' = AfterRevert(o)
                      /\ rl' = [rl EXCEPT !.i = rl.i + 1]
                      /\ h' = Called(h)
                      /\ UNCHANGED <<epc, eresult, exit>>
                [] RevertLoopArm(o.err) = "break" ->
                      /\ Succeed
                      /\ h' = [Called(h) EXCEPT !.stop = o.err = "NoMigrationRun"]
                      /\ UNCHANGED <<applied, rl>>
                [] OTHER ->
                      /\ Fail(o.err)
                      /\ h' = [Called(h) EXCEPT !.fault = IsFault(o.err)]
                      /\ UNCHANGED <<applied, rl>>
    /\ UNCHANGED <<onDisk, noTx, mysql, cmd, diskChanges, out, last>>

\* ---- Redo: redo_migrations
versions_to_revert(redo_all, redo_number, applied_versions) ==
    IF redo_all THEN applied_versions
    ELSE SubSeq(applied_versions, 1, Min(redo_number, Len(applied_versions)))

\* some version to revert has an entry whose metadata opts out of transactions
should_use_not_use_transaction(to_revert, migrations) ==
    \E i \in 1..Len(to_revert) : to_revert[i] \in migrations /\ to_revert[i] \in noTx

should_redo_migration_in_transaction == ~mysql

\* mutant: the closure run without conn.transaction whatever the policy says
AfterError_no_rollback(use_tx, tx_snapshot, current) == current

\* mutant: the applied versions put back as they were, transaction or not
AfterError_compensates(use_tx, tx_snapshot, current) == h.applied0

\* conn.transaction(..) commits what the closure did when it returns Ok and
\* rolls it back when it returns Err; without it the writes stay
AfterError(use_tx, tx_snapshot, current) == IF use_tx THEN tx_snapshot ELSE current

RedoBegin ==
    /\ epc = "redo"
    /\ LET to_revert == versions_to_revert(cmd.all, cmd.number, applied_migrations)
           use_tx == /\ ~should_use_not_use_transaction(to_revert, onDisk)
                     /\ should_redo_migration_in_transaction
       IN  rl' = [rl EXCEPT !.versions_to_revert = to_revert,
                            !.use_tx = use_tx,
                            !.tx_snapshot = IF use_tx THEN applied ELSE <<>>]
    /\ h' = [h EXCEPT !.disk0 = onDisk]
    /\ epc' = "redo_revert"
    /\ UNCHANGED <<onDisk, noTx, mysql, applied, cmd, eresult, exit, diskChanges, out, last>>

\* migrations_inner returned Err(e)
RedoFail(e, current) ==
    /\ applied' = AfterError(rl.use_tx, rl.tx_snapshot, current)
    /\ Fail(e)

\* what an answer of revert_last_migration makes the filter_map closure yield:
\* the version, nothing (the iteration goes on), or the error that ends collect
RedoFilterArm(err) ==
    IF err = "none" THEN "some_ok"
    ELSE IF err = "NoMigrationRun" THEN "skip"
    ELSE "some_err"

\* the revert half of migrations_inner
RedoRevert ==
    /\ epc = "redo_revert"
    /\ IF cmd.all
       THEN \E o \in revert_last_migration :
              CASE o.err = "none" ->
                      /\ applied' = AfterRevert(o)
                      /\ rl' = [rl EXCEPT !.reverted = Append(rl.reverted, o.v)]
                      /\ UNCHANGED <<epc, eresult, exit, h>>
                [] o.err = "NoMigrationRun" ->
                      /\ epc' = "redo_reread"
                      /\ UNCHANGED <<applied, rl, eresult, exit, h>>
                [] OTHER ->
                      /\ RedoFail(o.err, applied)
                      /\ h' = [h EXCEPT !.fault = IsFault(o.err)]
                      /\ UNCHANGED rl
       ELSE IF rl.i >= cmd.number
            THEN /\ epc' = "redo_reread"
                 /\ UNCHANGED <<applied, rl, eresult, exit, h>>
            ELSE \E o \in revert_last_migration :
                   CASE RedoFilterArm(o.err) = "some_ok" ->
                           /\ applied' = AfterRevert(o)
                           /\ rl' = [rl EXCEPT !.reverted = Append(rl.reverted, o.v),
                                               !.i = rl.i + 1]
                           /\ h' = Called(h)
                           /\ UNCHANGED <<epc, eresult, exit>>
                     [] RedoFilterArm(o.err) = "skip" ->
                           /\ rl' = [rl EXCEPT !.i = rl.i + 1]
                           /\ h' = [Called(h) EXCEPT !.stop = o.err = "NoMigrationRun"]
                           /\ UNCHANGED <<applied, epc, eresult, exit>>
                     [] OTHER ->
                           /\ RedoFail(o.err, applied)
                           /\ h' = [Called(h) EXCEPT !.fault = IsFault(o.err)]
                           /\ UNCHANGED rl
    /\ UNCHANGED <<onDisk, noTx, mysql, cmd, diskChanges, out, last>>

\* mutant: the list left in the order the versions were reverted
sort_by_key_omitted(migrations) == migrations

\* migrations.sort_by_key(|m| m.name().version())
sort_by_key(migrations) == SortAscending(migrations)

\* mutant: every migration read from disk is taken, reverted or not
collect_every_migration(reverted_versions, migrations) == SetToSortedSeq(migrations)

\* reverted_versions.into_iter().map(|v| migrations.remove(&v)...).collect():
\* the migration of each reverted version, in the order reverted
collect_migrations(reverted_versions, migrations) ==
    [i \in 1..Len(reverted_versions) |-> reverted_versions[i]]

\* mutant: a reverted version without entry is skipped instead of reported
MissingOnDisk_skipped(reverted, migrations) == {}

\* the reverted versions that the map read from disk does not hold, as
\* positions of `reverted`
MissingOnDisk(reverted, migrations) ==
    { i \in 1..Len(reverted) : reverted[i] \notin migrations }

\* mutant: the entries of the reverted versions removed from the store itself
store_after_remove_deletes(reverted_versions, store) == store \ Range(reverted_versions)

\* `migrations.remove(&v)` takes the migration out of the HashMap built from
\* the entries read; the store keeps every entry
store_after_remove(reverted_versions, store) == store

\* the store is read again and the list of migrations to apply is built
RedoReread ==
    /\ epc = "redo_reread"
    /\ onDisk' = store_after_remove(rl.reverted, onDisk)
    /\ LET missing == MissingOnDisk(rl.reverted, onDisk)
       IN  IF missing # {}
           THEN /\ RedoFail("UnknownMigrationVersion", applied)
                /\ h' = [h EXCEPT !.reread = onDisk, !.rereadDone = TRUE, !.fault = TRUE,
                                  !.unknown = rl.reverted[CHOOSE i \in missing :
                                                            \A j \in missing : i <= j]]
                /\ UNCHANGED rl
           ELSE /\ rl' = [rl EXCEPT !.migrations =
                                sort_by_key(collect_migrations(rl.reverted, onDisk))]
                /\ h' = [h EXCEPT !.reread = onDisk, !.rereadDone = TRUE]
                /\ epc' = "redo_apply"
                /\ UNCHANGED <<applied, eresult, exit>>
    /\ UNCHANGED <<noTx, mysql, cmd, diskChanges, out, last>>

\* harness.run_migrations(&migrations), then Ok(())
RedoApply ==
    /\ epc = "redo_apply"
    /\ IF rl.migrations = <<>>
       THEN Succeed /\ UNCHANGED <<applied, rl, h>>
       ELSE \/ /\ applied' = Append(applied, Head(rl.migrations))
               /\ rl' = [rl EXCEPT !.migrations = Tail(rl.migrations)]
               /\ h' = [h EXCEPT !.reapplied = Append(h.reapplied, Head(rl.migrations))]
               /\ UNCHANGED <<epc, eresult, exit>>
            \/ /\ RedoFail("MigrationExecutionFailed", applied)
               /\ h' = [h EXCEPT !.fault = TRUE]
               /\ UNCHANGED rl
    /\ UNCHANGED <<onDisk, noTx, mysql, cmd, diskChanges, out, last>>

\* ---- the schema file
\* what the schema file may hold: the schema as printed, the same lines with
\* other line terminators or without the final one, another schema
SchemaTexts == { <<"a", "\n">>, <<"a", "\r", "\n">>, <<"a">>, <<"b", "\n">> }

\* what print_schema::output_schema may print
PrintedSchemas == { <<"a", "\n">>, <<"b", "\n">> }

\* a line without the carriage return that ended it
StripCr(line) ==
    IF line # <<>> /\ line[Len(line)] = "\r" THEN SubSeq(line, 1, Len(line) - 1) ELSE line

\* str::lines: the text split at line feeds, a carriage return before a line
\* feed dropped, the terminator of the last line optional
RECURSIVE SplitLines(_, _, _)
SplitLines(text, line, acc) ==
    IF text = <<>> THEN (IF line = <<>> THEN acc ELSE Append(acc, line))
    ELSE IF Head(text) = "\n" THEN SplitLines(Tail(text), <<>>, Append(acc, StripCr(line)))
    ELSE SplitLines(Tail(text), Append(line, Head(text)), acc)

lines(text) == SplitLines(text, <<>>, <<>>)

\* mutant: the schema file written whatever locked_schema says
regenerate_schema_overwrites(locked_schema, file_configured, old_buf, schema, fail) ==
    IF fail # "none" THEN [exit |-> fail, file |-> old_buf]
    ELSE IF ~file_configured THEN [exit |-> "Ok", file |-> old_buf]
    ELSE [exit |-> "Ok", file |-> schema]

\* regenerate_schema_if_file_specified for one print_schema section; fail is
\* an error of Config::read, of the connection, of create_dir_all or of
\* output_schema, all of them before the file is looked at
regenerate_schema_if_file_specified(locked_schema, file_configured, old_buf, schema, fail) ==
    IF fail # "none" THEN [exit |-> fail, file |-> old_buf]
    ELSE IF ~file_configured THEN [exit |-> "Ok", file |-> old_buf]
    ELSE IF locked_schema
    THEN IF old_buf = None THEN [exit |-> "IoError", file |-> old_buf]
         ELSE IF lines(schema) # lines(old_buf)
         THEN [exit |-> "SchemaWouldChange", file |-> old_buf]
         ELSE [exit |-> "Ok", file |-> old_buf]
    ELSE [exit |-> "Ok", file |-> schema]

\* what a regeneration is given: the flag, the configuration, the schema file
\* as it is, the schema the database prints, and whether a step before the
\* comparison fails
RegenInputs ==
    [locked_schema : BOOLEAN, file_configured : BOOLEAN,
     old : SchemaTexts \cup {None}, schema : PrintedSchemas, fail : {"none", "IoError"}]

\* regenerate_schema_if_file_specified, after the migration part succeeded
RegenerateFrom(inputs) ==
    /\ epc = "regen"
    /\ \E in \in inputs :
          LET r == regenerate_schema_if_file_specified(in.locked_schema, in.file_configured,
                                                       in.old, in.schema, in.fail)
          IN  /\ exit' = r.exit
              /\ h' = [h EXCEPT !.regen = [ran |-> TRUE, locked_schema |-> in.locked_schema,
                                           file_configured |-> in.file_configured,
                                           fail |-> in.fail, old |-> in.old,
                                           schema |-> in.schema, file |-> r.file,
                                           applied_before |-> applied]]
    /\ epc' = "done"
    /\ UNCHANGED <<onDisk, noTx, mysql, applied, cmd, rl, eresult, diskChanges, out, last>>

Regenerate == RegenerateFrom(RegenInputs)

\* ---- Pending
\* MigrationHarness::has_pending_migration
has_pending_migration == pending_migrations # <<>>

\* mutant: the answer printed negated
PrintBool_negated(answer) == IF answer THEN "false" ELSE "true"

\* println!("{result:?}") of a bool
PrintBool(answer) == IF answer THEN "true" ELSE "false"

Pending ==
    /\ epc = "pending"
    /\ out' = <<PrintBool(has_pending_migration)>>
    /\ h' = [h EXCEPT !.disk0 = onDisk]
    /\ eresult' = "Ok"
    /\ exit' = "Ok"
    /\ epc' = "done"
    /\ UNCHANGED <<onDisk, noTx, mysql, applied, cmd, rl, diskChanges, last>>

\* ---- List: list_migrations
\* the orders in which MigrationSource::migrations may hand over the entries
Enumerations(S) == { e \in [1..Cardinality(S) -> S] : Range(e) = S }

\* mutant: the entries printed in the order the store enumerates them
sort_unstable_by_omitted(migrations) == migrations

\* migrations.sort_unstable_by(|a, b| a.name().version().cmp(&b.name().version()))
sort_unstable_by(migrations) == SortAscending(migrations)

\* the lines printed for the sorted entries: `[X]` iff the version is in the
\* set of applied migrations
list_lines(migrations, applied_set) ==
    [i \in 1..Len(migrations) |->
        [version |-> migrations[i], x |-> IF migrations[i] \in applied_set THEN "X" ELSE " "]]

\* applied_migrations into a HashSet, then the entries of the store
ListRead ==
    /\ epc = "list"
    /\ \E e \in Enumerations(onDisk) :
          rl' = [rl EXCEPT !.migrations = e]
    /\ h' = [h EXCEPT !.disk0 = onDisk]
    /\ epc' = "list_print"
    /\ UNCHANGED <<onDisk, noTx, mysql, applied, cmd, eresult, exit, diskChanges, out, last>>

\* sort, print every entry, Ok(())
ListPrint ==
    /\ epc = "list_print"
    /\ out' = list_lines(sort_unstable_by(rl.migrations), Range(applied_migrations))
    /\ eresult' = "Ok"
    /\ exit' = "Ok"
    /\ epc' = "done"
    /\ UNCHANGED <<onDisk, noTx, mysql, applied, cmd, rl, h, diskChanges, last>>

\* what the next command can know of the one that ends
LastOf ==
    IF cmd.kind = "run" /\ eresult = "Ok"
    THEN [kind |-> "run_ok", versions |-> h.disk0]
    ELSE IF cmd.kind = "revert"
         THEN [kind |-> "revert", versions |-> Range(h.applied0) \ Range(applied)]
         ELSE [kind |-> "other", versions |-> {}]

\* the process exits
EngExit ==
    /\ epc = "done"
    /\ epc' = "idle"
    /\ cmd' = NoCmd
    /\ rl' = NoRl
    /\ h' = NoH
    /\ eresult' = "none"
    /\ exit' = "none"
    /\ out' = <<>>
    /\ last' = LastOf
    /\ UNCHANGED <<onDisk, noTx, mysql, applied, diskChanges>>

\* the user (or a Generate) adds an entry to the folder, at any moment
UserAddsEntry ==
    /\ diskChanges < MaxDiskChanges
    /\ \E v \in Versions \ onDisk : onDisk' = onDisk \cup {v}
    /\ diskChanges' = diskChanges + 1
    /\ UNCHANGED <<noTx, mysql, applied, cmd, epc, rl, eresult, exit, h, out, last>>

\* the user removes an entry from the folder, at any moment
UserRemovesEntry ==
    /\ diskChanges < MaxDiskChanges
    /\ \E v \in onDisk : onDisk' = onDisk \ {v}
    /\ diskChanges' = diskChanges + 1
    /\ UNCHANGED <<noTx, mysql, applied, cmd, epc, rl, eresult, exit, h, out, last>>

\* one regeneration for each of its outcomes: the file holds the printed
\* schema, it holds another one, or an error before the file is looked at
OnePerOutcome ==
    { [locked_schema |-> TRUE, file_configured |-> TRUE, old |-> <<"a", "\n">>,
       schema |-> <<"a", "\n">>, fail |-> "none"],
      [locked_schema |-> TRUE, file_configured |-> TRUE, old |-> <<"b", "\n">>,
       schema |-> <<"a", "\n">>, fail |-> "none"],
      [locked_schema |-> TRUE, file_configured |-> TRUE, old |-> <<"a", "\n">>,
       schema |-> <<"a", "\n">>, fail |-> "IoError"] }

RegenerateOnce == RegenerateFrom(OnePerOutcome)

NextEngine ==
    \/ EngStart /\ UNCHANGED <<genVars, dirVars>>
    \/ RunBegin /\ UNCHANGED <<genVars, dirVars>>
    \/ RunApply /\ UNCHANGED <<genVars, dirVars>>
    \/ RevertBegin /\ UNCHANGED <<genVars, dirVars>>
    \/ RevertAll /\ UNCHANGED <<genVars, dirVars>>
    \/ RevertLoop /\ UNCHANGED <<genVars, dirVars>>
    \/ RedoBegin /\ UNCHANGED <<genVars, dirVars>>
    \/ RedoRevert /\ UNCHANGED <<genVars, dirVars>>
    \/ RedoReread /\ UNCHANGED <<genVars, dirVars>>
    \/ RedoApply /\ UNCHANGED <<genVars, dirVars>>
    \/ RegenerateOnce /\ UNCHANGED <<genVars, dirVars>>
    \/ Pending /\ UNCHANGED <<genVars, dirVars>>
    \/ ListRead /\ UNCHANGED <<genVars, dirVars>>
    \/ ListPrint /\ UNCHANGED <<genVars, dirVars>>
    \/ EngExit /\ UNCHANGED <<genVars, dirVars>>
    \/ UserAddsEntry /\ UNCHANGED <<genVars, dirVars>>
    \/ UserRemovesEntry /\ UNCHANGED <<genVars, dirVars>>

InitSpecEngine == InitGenParked /\ InitEngine /\ InitDirParked

SpecEngine == InitSpecEngine /\ [][NextEngine]_vars

\* ---- the engine beside a Generate that holds the lock
\* a step of a command that has started
EngineStep ==
    \/ RunBegin \/ RunApply
    \/ RevertBegin \/ RevertAll \/ RevertLoop
    \/ RedoBegin \/ RedoRevert \/ RedoReread \/ RedoApply
    \/ RegenerateOnce \/ Pending \/ ListRead \/ ListPrint

\* process 1 runs Generate up to the point where it holds the lock and is
\* not scheduled any further; the commands of the engine are started while
\* it holds the lock and run beside it
NextEngineLocked ==
    \/ GenStart(1) /\ args'[1] = [NoArgs EXCEPT !.migration_name = <<"a">>]
                   /\ UNCHANGED <<engVars, dirVars>>
    \/ migration_folder_lock(1) /\ UNCHANGED <<engVars, dirVars>>
    \/ LockWrite(1) /\ UNCHANGED <<engVars, dirVars>>
    \/ EngStart /\ lockHolder # 0 /\ UNCHANGED <<genVars, dirVars>>
    \/ EngineStep /\ UNCHANGED <<genVars, dirVars>>
    \/ EngExit /\ UNCHANGED <<genVars, dirVars>>

SpecEngineLocked ==
    /\ InitSpecEngine
    /\ [][NextEngineLocked]_vars
    /\ WF_vars(EngineStep /\ UNCHANGED <<genVars, dirVars>>)

\* ---- the engine with every schema file
\* the commands that end in a regeneration, on a folder the user leaves
\* alone, with every input of the regeneration
NextEngineSchema ==
    \/ EngStart /\ cmd'.kind \in {"run", "revert", "redo"} /\ UNCHANGED <<genVars, dirVars>>
    \/ RunBegin /\ UNCHANGED <<genVars, dirVars>>
    \/ RunApply /\ UNCHANGED <<genVars, dirVars>>
    \/ RevertBegin /\ UNCHANGED <<genVars, dirVars>>
    \/ RevertAll /\ UNCHANGED <<genVars, dirVars>>
    \/ RevertLoop /\ UNCHANGED <<genVars, dirVars>>
    \/ RedoBegin /\ UNCHANGED <<genVars, dirVars>>
    \/ RedoRevert /\ UNCHANGED <<genVars, dirVars>>
    \/ RedoReread /\ UNCHANGED <<genVars, dirVars>>
    \/ RedoApply /\ UNCHANGED <<genVars, dirVars>>
    \/ Regenerate /\ UNCHANGED <<genVars, dirVars>>
    \/ EngExit /\ UNCHANGED <<genVars, dirVars>>

SpecEngineSchema == InitSpecEngine /\ [][NextEngineSchema]_vars

\* ------------------------------------------------------ migrations_dir spec
InitSpecDir == InitGenParked /\ InitEngineParked /\ InitDirParked

NextDir ==
    \/ DirStart
    \/ DirResolve
    \/ DirExit

SpecDir == InitSpecDir /\ [][NextDir]_vars

NextSetup ==
    \/ SetupStart
    \/ SetupResolve
    \/ SetupCleanup
    \/ SetupCreateDir
    \/ SetupKeep
    \/ SetupExit

SpecSetup == InitSpecDir /\ [][NextSetup]_vars

\* ------------------------------------------------------------ Generate specs
GenStep(p) ==
    \/ migration_folder_lock(p) /\ UNCHANGED <<engVars, dirVars>>
    \/ LockWrite(p) /\ UNCHANGED <<engVars, dirVars>>
    \/ DropGuard(p) /\ UNCHANGED <<engVars, dirVars>>
    \/ DiffSchema(p) /\ UNCHANGED <<engVars, dirVars>>
    \/ migration_version(p) /\ UNCHANGED <<engVars, dirVars>>
    \/ ReadDir(p) /\ UNCHANGED <<engVars, dirVars>>
    \/ CreateDir(p) /\ UNCHANGED <<engVars, dirVars>>
    \/ WriteUp(p) /\ UNCHANGED <<engVars, dirVars>>
    \/ WriteDown(p) /\ UNCHANGED <<engVars, dirVars>>
    \/ Exit(p) /\ UNCHANGED <<engVars, dirVars>>

InitSpecGen == InitGen /\ InitEngineParked /\ InitDirParked

NextGen ==
    \/ \E p \in Procs : GenStart(p) /\ UNCHANGED <<engVars, dirVars>>
    \/ \E p \in Procs : GenStep(p)
    \/ Tick /\ UNCHANGED <<engVars, dirVars>>

SpecGen == InitSpecGen /\ [][NextGen]_vars

\* the failures the file system and flock(2) may answer at any time
IoErrors == { "IoError", "FailedToAcquireMigrationFolderLock" }

\* a step of a started invocation that is not such a failure: a process that
\* is running keeps running, and flock(2) grants a lock that stays free
Progress(p) == GenStep(p) /\ result'[p] \notin IoErrors

\* the command lines that reach every exit of the Generate arm: with and
\* without --diff-schema, with no version and with one that is already taken
LiveArgs ==
    { a \in GenerateArgs :
        /\ a.migration_name = <<"a">>
        /\ ~a.no_down
        /\ a.version \in {None, TIMESTAMP_FORMAT(0)} }

\* two invocations race for the store: the first two processes
Pair == { p \in Procs : p <= 2 }

NextGenLive ==
    \/ \E p \in Pair : GenStart(p) /\ args'[p] \in LiveArgs /\ UNCHANGED <<engVars, dirVars>>
    \/ \E p \in Pair : GenStep(p)

\* concurrent invocations under a scheduler that lets every process run
SpecGenLive ==
    InitSpecGen /\ [][NextGenLive]_vars /\ \A p \in Procs : WF_vars(Progress(p))

\* one invocation at a time: the invocations of a single shell
NextGenSeq ==
    \/ GenStart(1) /\ UNCHANGED <<engVars, dirVars>>
    \/ GenStep(1)
    \/ Tick /\ UNCHANGED <<engVars, dirVars>>

SpecGenSeq == InitSpecGen /\ [][NextGenSeq]_vars

\* =================================================================== claims

\* ---- Generate (SpecGen, SpecGenSeq)

\* the process has listed the folder and has not finished writing its scripts
InStoreWork(p) == pc[p] \in {"create", "write_up", "write_down"}

\* C1: a Generate keeps the exclusive lock from its acquisition until it
\* returns: while one invocation is between listing the entries and the end of
\* its script writing, it holds the lock and no other invocation is between
\* its own listing and its directory creation.
C1_LockHeldUntilReturn ==
    \A p \in Procs, q \in Procs :
        (p # q /\ InStoreWork(p)) => (lockHolder = p /\ pc[q] # "create")

\* C2: two concurrent Generate invocations without --version that read the
\* same second create entries with different versions, whatever their names.
C2_NoVersionCollision ==
    \A p \in Procs, q \in Procs :
        ( /\ p # q
          /\ args[p].version = None /\ args[q].version = None
          /\ loc[p].path # <<>> /\ loc[q].path # <<>>
          /\ loc[p].version = loc[q].version )
        => VersionOf(loc[p].path) # VersionOf(loc[q].path)

\* C3: with Generate invocations running one after the other, no two entries
\* of the folder share a version.
C3_UniqueVersions ==
    \A d1 \in dirs, d2 \in dirs : d1 # d2 => VersionOf(d1) # VersionOf(d2)

\* C3 witness: a Generate with --version has just succeeded in a folder that
\* now holds three entries
C3_Witness ==
    /\ Cardinality(dirs) >= 3
    /\ \E p \in Procs : pc[p] = "done" /\ result[p] = "Ok" /\ args[p].version # None

\* the invocation gave --version
Explicit(p) == args[p].version # None

\* some entry the invocation listed starts with the version it asks for
ListedDuplicate(p) == \E folder \in loc[p].folders : StartsWith(folder, loc[p].version)

\* what C15 says of an invocation with --version: a duplicate is refused with
\* nothing created, anything else gets its directory `<version>_<name>`
ExplicitOutcome(p) ==
    /\ (pc[p] = "done" /\ ListedDuplicate(p)) => result[p] = "DuplicateMigrationVersion"
    /\ result[p] = "DuplicateMigrationVersion" =>
          /\ ListedDuplicate(p)
          /\ loc[p].path = <<>>
          /\ dirs = loc[p].folders
          /\ files = loc[p].files0
    /\ loc[p].path # <<>> =>
          /\ ~ListedDuplicate(p)
          /\ loc[p].path = versioned_name(args[p].version, args[p].migration_name)
          /\ dirs = loc[p].folders \cup {loc[p].path}

\* C15 as stated: a Generate with --version creates `<version>_<name>` iff no
\* listed entry starts with the version; otherwise it fails with
\* DuplicateMigrationVersion and creates no directory and no file in the folder.
C15_ExplicitVersion ==
    \A p \in Procs : Explicit(p) =>
        /\ ExplicitOutcome(p)
        /\ result[p] = "DuplicateMigrationVersion" => lockFile = loc[p].lock0

\* C15 amended: the same, the lock file apart, which the refused invocation
\* creates when the folder has none.
C15_ExplicitVersionNoEntry ==
    \A p \in Procs : Explicit(p) => ExplicitOutcome(p)

\* C15 witness: an invocation with --version was refused in a folder where
\* an earlier one had created its entry
C15_Witness ==
    \E p \in Procs :
        /\ Explicit(p) /\ result[p] = "DuplicateMigrationVersion"
        /\ \E d \in dirs : VersionOf(d) = TIMESTAMP_FORMAT(0) \o <<"-">> \o Hex4(0)

\* the subversions of the invocation's timestamp that no listed entry starts with
FreeSuffixes(p) ==
    { i \in 0..MaxSubversion :
        ~\E folder \in loc[p].folders :
            StartsWith(folder, loc[p].version \o <<"-">> \o Hex4(i)) }

\* the least element of a non-empty set of numbers
Least(S) == CHOOSE i \in S : \A j \in S : i <= j

\* C16: a Generate without --version creates `<timestamp>-<suffix>_<name>`,
\* the suffix being the smallest four-digit hexadecimal value, from 0000
\* upward, such that no listed entry starts with `<timestamp>-<suffix>`; the
\* version is a function of the timestamp and of the listed entries alone.
C16_SmallestFreeSuffix ==
    \A p \in Procs : (~Explicit(p) /\ loc[p].path # <<>>) =>
        /\ \E now \in 0..clock : loc[p].version = TIMESTAMP_FORMAT(now)
        /\ FreeSuffixes(p) # {}
        /\ loc[p].path = loc[p].version \o <<"-">> \o Hex4(Least(FreeSuffixes(p)))
                            \o <<"_">> \o args[p].migration_name
        /\ Len(loc[p].path) = Len(loc[p].version) + 5 + 1 + Len(args[p].migration_name)

\* C16 witness: an invocation got a suffix above 0000, the lower ones taken
C16_Witness ==
    \E p \in Procs :
        /\ ~Explicit(p) /\ loc[p].path # <<>>
        /\ FreeSuffixes(p) # {} /\ Least(FreeSuffixes(p)) >= 1

\* C17: a Generate without --version fails with TooManyMigrations, creating
\* no directory, exactly when every suffix of its timestamp is the prefix of
\* a listed entry.
C17_SuffixExhaustion ==
    \A p \in Procs : ~Explicit(p) =>
        /\ (pc[p] = "done" /\ FreeSuffixes(p) = {}) => result[p] = "TooManyMigrations"
        /\ result[p] = "TooManyMigrations" =>
              /\ FreeSuffixes(p) = {}
              /\ loc[p].path = <<>>
              /\ dirs = loc[p].folders
              /\ files = loc[p].files0

\* C17 witness: an invocation was refused, every suffix of its second taken
C17_Witness ==
    \E p \in Procs :
        /\ ~Explicit(p) /\ result[p] = "TooManyMigrations"
        /\ Cardinality(loc[p].folders) > MaxSubversion

\* the order of the characters that versions are made of, as in ASCII
CharRank(c) ==
    CHOOSE i \in 1..18 :
        <<"-","0","1","2","3","4","5","6","7","8","9","_","a","b","c","d","e","f">>[i] = c

RECURSIVE LexLess(_, _)
\* s < t in the lexicographic order of strings
LexLess(s, t) ==
    IF t = <<>> THEN FALSE
    ELSE IF s = <<>> THEN TRUE
    ELSE IF Head(s) = Head(t) THEN LexLess(Tail(s), Tail(t))
    ELSE CharRank(Head(s)) < CharRank(Head(t))

\* C18: of two versions allocated one after the other without --version, the
\* later is strictly greater in lexicographic order, within one second and
\* across seconds.
C18_VersionsIncrease ==
    \A i, j \in 1..Len(allocs) : i < j => LexLess(allocs[i], allocs[j])

\* C18 witness: two allocations in the same second
C18_Witness ==
    /\ Len(allocs) >= 2
    /\ SubSeq(allocs[1], 1, Len(TIMESTAMP_FORMAT(0))) = SubSeq(allocs[2], 1, Len(TIMESTAMP_FORMAT(0)))

\* ---- the scripts of a new entry (SpecGenSeq)
\* the scripts with name `file` in the entry an invocation created
ScriptsOf(p, file) == { f \in files : f.dir = loc[p].path /\ f.file = file }

\* C25 as stated: after a successful Generate the up script holds the prefill
\* text when the schema diff gave one and the placeholder comment otherwise,
\* never both; the same for the down script when it is written.
C25_PrefillOrPlaceholder ==
    \A p \in Procs :
        (pc[p] = "done" /\ result[p] = "Ok") =>
            /\ \A f \in ScriptsOf(p, "up.sql") :
                  f.content = script_content_prefill_or_placeholder(
                                  "-- Your SQL goes here", loc[p].up_sql)
            /\ \A f \in ScriptsOf(p, "down.sql") :
                  f.content = script_content_prefill_or_placeholder(
                                  "-- This file should undo anything in up.sql", loc[p].down_sql)

\* C25 amended: the up script always starts with the placeholder line, and
\* the prefill text follows it when the schema diff gave one; the same for
\* the down script when it is written.
C25_PlaceholderThenPrefill ==
    \A p \in Procs :
        (pc[p] = "done" /\ result[p] = "Ok") =>
            /\ \A f \in ScriptsOf(p, "up.sql") :
                  f.content = <<"-- Your SQL goes here">> \o loc[p].up_sql
            /\ \A f \in ScriptsOf(p, "down.sql") :
                  f.content = <<"-- This file should undo anything in up.sql">> \o loc[p].down_sql

\* C25 witness: a successful Generate with --diff-schema wrote both scripts
C25_Witness ==
    \E p \in Procs :
        /\ pc[p] = "done" /\ result[p] = "Ok" /\ args[p].schema_rs
        /\ ScriptsOf(p, "up.sql") # {} /\ ScriptsOf(p, "down.sql") # {}

\* C26: a successful Generate has created the up script of the new entry,
\* and its down script exactly when --no-down was not given.
C26_UpAlwaysDownIffWanted ==
    \A p \in Procs :
        (pc[p] = "done" /\ result[p] = "Ok") =>
            /\ loc[p].path \in dirs
            /\ Cardinality(ScriptsOf(p, "up.sql")) = 1
            /\ (ScriptsOf(p, "down.sql") # {} <=> ~args[p].no_down)
            /\ { f \in files : f.dir = loc[p].path } =
                  ScriptsOf(p, "up.sql") \cup ScriptsOf(p, "down.sql")

\* C26 witness: a successful Generate with --no-down
C26_Witness ==
    \E p \in Procs :
        /\ pc[p] = "done" /\ result[p] = "Ok" /\ args[p].no_down
        /\ ScriptsOf(p, "up.sql") # {}

\* C28: an invocation that could not open or create the lock file, or could
\* not take the lock, ends there with the error: it has read no listing,
\* chosen no version and created nothing, and the entries and scripts of the
\* store are as it found them.
C28_LockFailureBeforeStoreWork ==
    /\ [](\A p \in Procs :
            result[p] = "FailedToAcquireMigrationFolderLock" =>
                /\ pc[p] = "done"
                /\ loc[p].folders = {} /\ loc[p].version = <<>> /\ loc[p].path = <<>>
                /\ dirs = loc[p].dirs0 /\ files = loc[p].files0)
    /\ [][\A p \in Procs :
            (pc[p] \in {"lock_open", "lock_write"} /\ pc'[p] \notin {"lock_write", "drop_guard"}
               /\ pc'[p] # pc[p]) =>
                /\ pc'[p] = "done"
                /\ result'[p] \in {"IoError", "FailedToAcquireMigrationFolderLock"}
                /\ loc'[p].folders = {} /\ loc'[p].version = <<>> /\ loc'[p].path = <<>>
                /\ dirs' = loc[p].dirs0 /\ files' = loc[p].files0]_vars

\* C28 witness: lock.write() failed on a store that holds entries
C28_Witness ==
    \E p \in Procs :
        /\ pc[p] = "done" /\ result[p] = "FailedToAcquireMigrationFolderLock"
        /\ dirs # {}

\* ---- existing entries under racing invocations (SpecGenLive)
\* the path create_migration_dir is about to create from the listing it
\* read, None when the version check refuses
TargetPath(p) ==
    LET a == allocate(loc[p].version, args[p].version # None, loc[p].folders)
    IN  IF a.err # "none" THEN None ELSE versioned_name(a.version, args[p].migration_name)

\* C27: Generate leaves every existing entry and script as it is: nothing is
\* removed, a script is only added to the directory the invocation created
\* itself and never replaces one; create_dir on a path that exists ends the
\* invocation with an error and changes nothing; and the directory of an
\* invocation that failed while writing its scripts stays.
C27_ExistingEntriesKept ==
    /\ [](\A p \in Procs :
            (pc[p] = "done" /\ result[p] # "Ok" /\ loc[p].path # <<>>) => loc[p].path \in dirs)
    /\ [](\A f, g \in files : (f.dir = g.dir /\ f.file = g.file) => f = g)
    /\ [][ /\ dirs \subseteq dirs'
           /\ files \subseteq files'
           /\ \A f \in files' \ files :
                 \E p \in Procs : f.dir = loc[p].path /\ f.dir \notin loc[p].folders
           /\ \A p \in Procs :
                 (pc[p] = "create" /\ pc'[p] # "create" /\ TargetPath(p) \in dirs) =>
                     /\ pc'[p] = "done" /\ result'[p] = "IoError"
                     /\ dirs' = dirs /\ files' = files ]_vars

\* C27 witness: an invocation ended with the error of create_dir on a path
\* that another invocation had created after the listing was read
C27_Witness ==
    \E p \in Procs :
        /\ pc[p] = "done" /\ result[p] = "IoError"
        /\ TargetPath(p) # None
        /\ TargetPath(p) \in dirs /\ TargetPath(p) \notin loc[p].folders
        /\ loc[p].path = <<>>
        /\ EntryFiles(TargetPath(p)) \subseteq files

\* ---- the engine beside a held lock (SpecEngineLocked)
\* C21: Run, Revert, Redo, List and Pending neither take nor wait for the
\* lock: while another process holds it, a command can start, every step of
\* a command leaves the lock and its file alone, and a command that has
\* started runs to its end.
C21_EngineIgnoresLock ==
    /\ [](lockHolder # 0 /\ epc = "idle" => ENABLED (EngStart /\ UNCHANGED <<genVars, dirVars>>))
    /\ [][engVars' # engVars => UNCHANGED <<lockHolder, lockFile>>]_vars
    /\ (lockHolder # 0 /\ epc \notin {"idle", "done"}) ~> (lockHolder # 0 /\ epc = "done")

\* C21 witness: a Redo that started after the lock was taken has succeeded
\* while the lock is still held
C21_Witness ==
    /\ lockHolder = 1
    /\ epc = "done"
    /\ cmd.kind = "redo"
    /\ exit = "Ok"
    /\ Len(rl.reverted) >= 1

\* ---- the lock of Generate under a fair scheduler (SpecGenLive)
\* C20: an invocation that has acquired the lock no longer holds it when it
\* returns, whatever the exit path (Ok, a schema-diff error, DuplicateVersion or
\* TooManyMigrationsThisSecond, a failed create_dir, a failed script write);
\* and lock.write() blocks: an invocation that has reached lock.write()
\* eventually holds the lock, unless flock itself answers an error.
C20_LockReleasedAndBlocking ==
    /\ [](\A p \in Procs : pc[p] = "done" => lockHolder # p)
    /\ \A p \in Procs :
          (pc[p] = "lock_write") ~>
              (lockHolder = p \/ result[p] = "FailedToAcquireMigrationFolderLock")

\* C20 witness: an invocation waits in lock.write() while another holds the lock
C20_Witness ==
    \E p, q \in Procs :
        /\ p # q
        /\ pc[p] = "lock_write"
        /\ lockHolder = q
        /\ pc[q] = "drop_guard"

\* ---- create_migrations_dir (SpecSetup)
\* C29: from a folder that exists nothing is removed but the file `.gitkeep`,
\* nothing is added, and the outcome is Ok also when the removal fails, which
\* is a warning; a folder that does not exist is created and given `.keep`;
\* the migration entries are left alone in both cases.
C29_StoreCreationAndCleanup ==
    /\ sd.content0 \ sd.content \subseteq {[name |-> ".gitkeep", type |-> "file"]}
    /\ MigrationEntries(sd.content) = MigrationEntries(sd.content0)
    /\ sd.warned => sd.result = "Ok" /\ sd.content = sd.content0
    /\ (sd.pc = "done" /\ sd.result # "ProjectRootNotFound") =>
          IF sd.exists0
          THEN sd.result = "Ok" /\ sd.content \subseteq sd.content0
          ELSE sd.result = "Ok" =>
                 sd.exists /\ sd.content = {[name |-> ".keep", type |-> "file"]}

\* C29 witness: the legacy placeholder was removed from a folder that holds
\* an entry and the placeholder of today
C29_Witness ==
    /\ sd.pc = "done" /\ sd.exists0
    /\ [name |-> ".gitkeep", type |-> "file"] \in sd.content0 \ sd.content
    /\ MigrationEntries(sd.content) # {}
    /\ [name |-> ".keep", type |-> "file"] \in sd.content

\* ---- migrations_dir (SpecDir)

\* C30: when the folder comes from the configuration, a relative
\* migrations_directory.dir is answered joined to the directory of the
\* configuration file, not to the working directory, and an absolute one is
\* answered as written.
C30_RelativeToConfigFile ==
    (rs.pc = "done" /\ rs.migration_dir = None /\ env_var(rs.env) = None
       /\ rs.config.state = "read" /\ rs.config.dir # None) =>
        /\ rs.result.err = "none"
        /\ Head(rs.config.dir) = "/" => rs.result.path = rs.config.dir
        /\ Head(rs.config.dir) # "/" =>
              /\ rs.result.path = ConfigParent \o rs.config.dir
              /\ rs.result.path # CurrentDir \o rs.config.dir

\* C30 witness: a relative directory of the configuration was resolved
C30_Witness ==
    /\ rs.pc = "done" /\ rs.migration_dir = None /\ env_var(rs.env) = None
    /\ rs.config.state = "read" /\ rs.config.dir = <<"db", "migrations">>
    /\ rs.result.path = <<"/", "proj", "db", "migrations">>

\* C19: the folder is the one given on the command line whenever given;
\* otherwise the value of MIGRATION_DIRECTORY whenever set; otherwise the
\* directory of the configuration when it has one; otherwise what the search
\* finds. The result depends on these inputs alone and nothing is modified.
C19_ResolutionPrecedence ==
    rs.pc = "done" =>
        /\ rs.migration_dir # None =>
              rs.result = [err |-> "none", path |-> rs.migration_dir]
        /\ (rs.migration_dir = None /\ rs.env.set) =>
              rs.result = [err |-> "none", path |-> rs.env.value]
        /\ (rs.migration_dir = None /\ ~rs.env.set /\ rs.config.dir # None) =>
              /\ rs.result.err = "none"
              /\ rs.result.path \in {rs.config.dir, ConfigParent \o rs.config.dir}
        /\ ( /\ rs.migration_dir = None /\ ~rs.env.set
             /\ rs.config.dir = None /\ rs.config.state \in {"absent", "read"} ) =>
              rs.result = IF rs.found # None
                          THEN [err |-> "none", path |-> rs.found]
                          ELSE [err |-> "MigrationDirectoryNotFound", path |-> None]
        /\ dirs = {} /\ files = {} /\ ~lockFile /\ applied = <<>>

\* ---- engine (SpecEngine)

\* the versions a Redo is to redo: all applied ones, or the min(n, k) most
\* recently applied
RedoneSuffix ==
    LET k == Len(h.applied0)
        m == IF cmd.all THEN k ELSE Min(cmd.number, k)
    IN  SubSeq(h.applied0, k - m + 1, k)

\* the applied versions a Redo or Revert leaves alone
KeptPrefix(m) == SubSeq(h.applied0, 1, Len(h.applied0) - m)

\* C4: Redo runs inside one transaction iff the backend is not MySQL and no
\* migration being redone declares run_in_transaction = false.
C4_TransactionIff ==
    (cmd.kind = "redo" /\ epc # "redo") =>
        ( rl.use_tx <=>
            ( /\ ~mysql
              /\ \A v \in Range(RedoneSuffix) : ~(v \in h.disk0 /\ v \in noTx) ) )

\* C5: a Redo that runs inside the transaction and fails at any step returns
\* the error and leaves the applied versions as they were before it.
C5_FailedRedoRollsBack ==
    (cmd.kind = "redo" /\ rl.use_tx /\ eresult \notin {"none", "Ok"}) =>
        (applied = h.applied0 /\ exit = eresult /\ epc = "done")

\* C5 witness: in a transaction, a reapply failed after a revert and an
\* earlier reapply went through
C5_Witness ==
    /\ cmd.kind = "redo" /\ rl.use_tx
    /\ eresult = "MigrationExecutionFailed"
    /\ Len(rl.reverted) >= 2 /\ Len(h.reapplied) >= 1

\* C6 as stated: a successful Redo leaves the applied sequence as it was.
C6_RedoKeepsSequence ==
    (cmd.kind = "redo" /\ eresult = "Ok") => applied = h.applied0

\* C6 amended: a successful Redo leaves the applied sequence as it was when
\* the versions it redoes had been applied in ascending version order.
C6_RedoKeepsAscendingSequence ==
    (cmd.kind = "redo" /\ eresult = "Ok" /\ IsAscending(RedoneSuffix)) =>
        applied = h.applied0

\* C6 witness: redo --number n with n above the number applied, two or more
\* versions redone
C6_Witness ==
    /\ cmd.kind = "redo" /\ eresult = "Ok" /\ ~cmd.all
    /\ cmd.number > Len(h.applied0)
    /\ Len(rl.reverted) >= 2
    /\ IsAscending(RedoneSuffix)

\* C7: what Redo reapplies is exactly what it reverted, in ascending version
\* order whatever the order of the reverts, and nothing that was not applied
\* before.
C7_ReappliesExactlyReverted ==
    /\ (cmd.kind = "redo" /\ h.rereadDone /\ h.unknown = 0) =>
          /\ h.reapplied \o rl.migrations = SetToSortedSeq(Range(rl.reverted))
          /\ Range(h.reapplied) \subseteq Range(h.applied0)
          /\ (eresult = "Ok" => h.reapplied = SetToSortedSeq(Range(rl.reverted)))
    /\ (cmd.kind = "redo" /\ ~h.rereadDone) => h.reapplied = <<>>

\* C7 witness: a Redo succeeded that reverted two or more versions in
\* descending order while an entry never applied sat on disk
C7_Witness ==
    /\ cmd.kind = "redo" /\ eresult = "Ok"
    /\ Len(rl.reverted) >= 2 /\ ~IsAscending(rl.reverted)
    /\ onDisk \ Range(h.applied0) # {}

\* C8: when a reverted version has no entry at the re-read, Redo fails with
\* UnknownMigrationVersion for it and reapplies nothing.
C8_VanishedVersionFails ==
    (cmd.kind = "redo" /\ h.rereadDone /\ Range(rl.reverted) \ h.reread # {}) =>
        /\ eresult = "UnknownMigrationVersion"
        /\ h.unknown \in Range(rl.reverted) \ h.reread
        /\ h.reapplied = <<>>
        /\ epc = "done"

\* C8 witness: two versions were reverted and one of them was gone at the re-read
C8_Witness ==
    /\ cmd.kind = "redo" /\ h.rereadDone
    /\ Len(rl.reverted) >= 2
    /\ Range(rl.reverted) \ h.reread # {}

\* C9: revert --number n with k applied reverts the min(n, k) most recently
\* applied versions and ends without error, also when n > k.
C9_RevertNumber ==
    (cmd.kind = "revert" /\ ~cmd.all /\ epc \in {"regen", "done"} /\ ~h.fault) =>
        /\ eresult = "Ok"
        /\ applied = KeptPrefix(Min(cmd.number, Len(h.applied0)))

\* C9 witness: more reverts asked for than versions applied
C9_Witness ==
    /\ cmd.kind = "revert" /\ ~cmd.all /\ epc = "regen"
    /\ Len(h.applied0) >= 2 /\ cmd.number > Len(h.applied0)
    /\ eresult = "Ok"

\* C10: revert --all, when every revert succeeds, ends without error with
\* nothing applied.
C10_RevertAll ==
    (cmd.kind = "revert" /\ cmd.all /\ epc \in {"regen", "done"} /\ ~h.fault) =>
        (eresult = "Ok" /\ applied = <<>>)

\* C10 witness: revert --all ended after reverting three versions
C10_Witness ==
    /\ cmd.kind = "revert" /\ cmd.all /\ epc = "regen"
    /\ Len(h.applied0) >= 3 /\ applied = <<>>

\* ---- Run, Pending, List (SpecEngine)

\* the migrations pending when the running command read the store
PendingAtStart == SetToSortedSeq(h.disk0 \ Range(h.applied0))

\* C11: Run applies the pending entries one by one in ascending version
\* order, stops at the first apply that fails and returns that failure, and
\* keeps what it applied before: the applied sequence is the one before the
\* Run followed by the pending entries up to the failure.
C11_RunAppliesInOrder ==
    (cmd.kind = "run" /\ epc # "run") =>
        /\ applied \o rl.migrations = h.applied0 \o PendingAtStart
        /\ IsAscending(PendingAtStart)
        /\ Range(PendingAtStart) = h.disk0 \ Range(h.applied0)
        /\ (h.fault => /\ eresult = "MigrationExecutionFailed"
                       /\ exit = eresult
                       /\ rl.migrations # <<>>)
        /\ (eresult = "Ok" => rl.migrations = <<>>)

\* C11 witness: a Run failed at its second pending entry or later, with
\* more entries still pending
C11_Witness ==
    /\ cmd.kind = "run" /\ h.fault
    /\ Len(applied) > Len(h.applied0)
    /\ Len(rl.migrations) >= 2

\* the command before this one was a Run that succeeded, and this command
\* read the same on-disk entries as that Run
FollowsSuccessfulRun == last.kind = "run_ok" /\ h.disk0 = last.versions

\* C12: a Run right after a successful Run, the on-disk entries unchanged,
\* applies nothing, leaves the applied versions as they were and reports no
\* error.
C12_RunIdempotent ==
    (cmd.kind = "run" /\ epc # "run" /\ FollowsSuccessfulRun) =>
        /\ rl.migrations = <<>>
        /\ applied = h.applied0
        /\ eresult \in {"none", "Ok"}
        /\ ~h.fault

\* C12 witness: the second Run has ended, two or more versions applied
C12_Witness ==
    /\ cmd.kind = "run" /\ epc = "regen" /\ FollowsSuccessfulRun
    /\ Len(applied) >= 2

\* C13: Pending prints true exactly when some on-disk entry is not applied;
\* false right after a successful Run, true right after a Revert that
\* reverted a migration whose entry is still on disk.
C13_PendingIffUnapplied ==
    (cmd.kind = "pending" /\ epc = "done") =>
        /\ out = <<IF h.disk0 \ Range(applied) # {} THEN "true" ELSE "false">>
        /\ FollowsSuccessfulRun => out = <<"false">>
        /\ (last.kind = "revert" /\ last.versions \cap h.disk0 # {}) => out = <<"true">>
        /\ applied = h.applied0

\* C13 witness: Pending printed true right after a Revert, an applied
\* version being left
C13_Witness ==
    /\ cmd.kind = "pending" /\ epc = "done"
    /\ last.kind = "revert" /\ last.versions \cap h.disk0 # {}
    /\ applied # <<>>

\* C14: List prints every on-disk entry once, in ascending version order
\* whatever the order of enumeration, marked applied iff its version is
\* among the applied ones, and changes neither the applied versions nor the
\* store.
C14_ListSortedAndMarked ==
    /\ [](  (cmd.kind = "list" /\ epc = "done") =>
              /\ Len(out) = Cardinality(h.disk0)
              /\ { out[i].version : i \in 1..Len(out) } = h.disk0
              /\ \A i, j \in 1..Len(out) : i < j => out[i].version < out[j].version
              /\ \A i \in 1..Len(out) : out[i].x = "X" <=> out[i].version \in Range(applied)
              /\ applied = h.applied0 )
    /\ [][ (epc \in {"list", "list_print"} /\ epc' # epc) =>
              (applied' = applied /\ onDisk' = onDisk) ]_vars

\* C14 witness: List printed three entries that the store had enumerated out
\* of order, some applied and some not
C14_Witness ==
    /\ cmd.kind = "list" /\ epc = "done"
    /\ Len(out) >= 3 /\ ~IsAscending(rl.migrations)
    /\ \E i, j \in 1..Len(out) : out[i].x = "X" /\ out[j].x = " "

\* ---- engine: frame and errors (SpecEngine)
\* the state a command of the engine works on; the store and the counter of
\* the user's changes are not part of it
cmdVars == <<applied, cmd, epc, rl, eresult, exit, h, out, last>>

\* C22: a step of Run, Revert, Redo, List or Pending, in a command that
\* succeeds or fails, leaves the entries of the store and their scripts as
\* they were.
C22_EngineKeepsStore ==
    [][cmdVars' # cmdVars => UNCHANGED <<onDisk, dirs, files>>]_vars

\* C22 witness: a Redo that reverted a migration and then failed, with
\* entries on disk
C22_Witness ==
    /\ epc = "done"
    /\ cmd.kind = "redo"
    /\ h.rereadDone
    /\ eresult = "MigrationExecutionFailed"
    /\ onDisk # {}

\* C24: a Redo that runs without the transaction and fails returns the error
\* and compensates nothing: the applied sequence is what the reverts and the
\* applies made so far left, and every version reverted and not yet reapplied
\* is unapplied.
C24_FailedRedoNoCompensation ==
    (cmd.kind = "redo" /\ epc = "done" /\ ~rl.use_tx /\ eresult \notin {"none", "Ok"}) =>
        /\ applied = KeptPrefix(Len(rl.reverted)) \o h.reapplied
        /\ \A v \in Range(rl.reverted) \ Range(h.reapplied) : v \notin Range(applied)
        /\ exit = eresult

\* C24 witness: without a transaction, of two versions reverted one was
\* reapplied before the other's up script failed
C24_Witness ==
    /\ cmd.kind = "redo" /\ epc = "done" /\ ~rl.use_tx
    /\ eresult = "MigrationExecutionFailed"
    /\ Len(rl.reverted) >= 2 /\ Len(h.reapplied) = 1

\* C23: an error of the database other than NoMigrationRun ends Run, Revert
\* and Redo at once with that error; NoMigrationRun is never the result of a
\* command; and once a number loop was answered NoMigrationRun the loop is
\* over, revert_last_migration is not called again.
C23_ErrorsEndNoMigrationRunStops ==
    /\ h.fault => epc = "done" /\ IsFault(eresult) /\ exit = eresult
    /\ eresult # "NoMigrationRun" /\ exit # "NoMigrationRun"
    /\ h.stop => h.after_stop = 0

\* ---- engine: the number loop of Redo (SpecEngine)
\* C31: for redo --number n the versions inspected for the transaction policy
\* are the versions the revert loop goes on to revert, the min(n, k) most
\* recently applied: an opt-out among them disables the transaction, one
\* outside them does not.
C31_InspectedAreReverted ==
    (cmd.kind = "redo" /\ ~cmd.all /\ epc # "redo") =>
        /\ Range(rl.versions_to_revert) = Range(RedoneSuffix)
        /\ (\E v \in Range(RedoneSuffix) : v \in h.disk0 /\ v \in noTx) => ~rl.use_tx
        /\ (~mysql /\ \A v \in Range(RedoneSuffix) : ~(v \in h.disk0 /\ v \in noTx)) => rl.use_tx

\* the revert requests a number loop has made so far: one per iteration
RevertRequests == rl.i

\* C32: redo --number n with k < n versions applied makes at most k + 1
\* revert requests, the last one answered NoMigrationRun; none follows it.
C32_RedoStopsAtNoMigrationRun ==
    (cmd.kind = "redo" /\ ~cmd.all) =>
        /\ RevertRequests <= Len(h.applied0) + 1
        /\ h.after_stop = 0

\* ------------------------------------------------- project root (main.rs)
MaxDepth == 3           \* the deepest working directory is MaxDepth below the root

DirNames == <<"a", "b", "c", "d", "e">>

\* the directories of the file system: one chain below the root and one
\* directory beside it
Chain(n) == <<"/">> \o SubSeq(DirNames, 1, n)

Dirs == { Chain(n) : n \in 0..MaxDepth } \cup { <<"/", "x">> }

Markers == {"diesel.toml", "Cargo.toml"}

MarkerFiles == { join(d, <<m>>) : d \in Dirs, m \in Markers }

\* Path::parent: None for the root and for the empty path
parent(path) == IF path = <<"/">> \/ path = <<>> THEN None ELSE Front(path)

\* Path::is_file
is_file(path, fs) == path \in fs

SearchOk(path, n) == [ok |-> TRUE, error |-> "none", path |-> path, probes |-> n]

ProjectRootNotFound(path, n) ==
    [ok |-> FALSE, error |-> "ProjectRootNotFound", path |-> path, probes |-> n]

\* no rewriting of the error on the way out of the recursion
map_err_kept(path, r) == r

\* .map_err(|_| Error::ProjectRootNotFound(path.into())), at every level
map_err(path, r) == IF r.ok THEN r ELSE ProjectRootNotFound(path, r.probes)

\* search_for_directory_containing_file; probes counts the directories tested
RECURSIVE search_for_directory_containing_file(_, _, _)
search_for_directory_containing_file(path, file, fs) ==
    IF is_file(join(path, <<file>>), fs)
    THEN SearchOk(path, 1)
    ELSE LET up == IF parent(path) = None
                   THEN ProjectRootNotFound(path, 0)
                   ELSE search_for_directory_containing_file(parent(path), file, fs)
         IN  map_err(path, [up EXCEPT !.probes = @ + 1])

\* the nearer of the two markers wins
or_else_nearest(r, alt) ==
    IF r.ok /\ (~alt.ok \/ Len(r.path) >= Len(alt.path)) THEN r ELSE alt

\* Result::or_else
or_else(r, alt) == IF r.ok THEN r ELSE alt

\* find_project_root, after current_dir succeeded
find_project_root(current_dir, fs) ==
    or_else(search_for_directory_containing_file(current_dir, "diesel.toml", fs),
            search_for_directory_containing_file(current_dir, "Cargo.toml", fs))

RootStart ==
    /\ pr.pc = "idle"
    /\ \E current_dir \in Dirs, fs \in SUBSET MarkerFiles, cwd_ok \in BOOLEAN :
          pr' = [pc |-> "find", current_dir |-> current_dir, cwd_ok |-> cwd_ok, fs |-> fs,
                 first |-> NotSearched, second |-> NotSearched, result |-> NotSearched]
    /\ UNCHANGED <<genVars, engVars, rs, sd, cv>>

\* find_project_root: first and second record the searches it made
RootFind ==
    /\ pr.pc = "find"
    /\ IF ~pr.cwd_ok
       THEN pr' = [pr EXCEPT !.pc = "done",
                             !.result = [NotSearched EXCEPT !.error = "IoError"]]
       ELSE LET first == search_for_directory_containing_file(pr.current_dir, "diesel.toml", pr.fs)
            IN  pr' = [pr EXCEPT !.pc = "done",
                                 !.first = first,
                                 !.second = IF first.ok THEN NotSearched
                                            ELSE search_for_directory_containing_file(
                                                     pr.current_dir, "Cargo.toml", pr.fs),
                                 !.result = find_project_root(pr.current_dir, pr.fs)]
    /\ UNCHANGED <<genVars, engVars, rs, sd, cv>>

RootExit ==
    /\ pr.pc = "done"
    /\ pr' = NoPr
    /\ UNCHANGED <<genVars, engVars, rs, sd, cv>>

NextRoot ==
    \/ RootStart
    \/ RootFind
    \/ RootExit

SpecRoot == InitSpecDir /\ [][NextRoot]_vars

\* ------------------------------------------------- project root (SpecRoot)
\* a directory and the directories above it
Ancestors(path) == { SubSeq(path, 1, n) : n \in 1..Len(path) }

\* the directories on the way up from path that hold the file
Holders(path, file, fs) == { d \in Ancestors(path) : join(d, <<file>>) \in fs }

\* the answer of one search, stated without the recursion
NearestHolder(r, path, file, fs) ==
    IF Holders(path, file, fs) # {}
    THEN /\ r.ok
         /\ r.path \in Holders(path, file, fs)
         /\ \A d \in Holders(path, file, fs) : Len(d) <= Len(r.path)
    ELSE /\ ~r.ok
         /\ r.error = "ProjectRootNotFound"
         /\ r.path = path

\* C33: a search returns the nearest directory, from the start directory
\* upwards, that holds the marker file; it tests no directory beyond the root,
\* and when none holds the file it fails with ProjectRootNotFound carrying the
\* start directory.
C33_NearestAncestorOrStartInError ==
    (pr.pc = "done" /\ pr.cwd_ok) =>
        /\ NearestHolder(pr.first, pr.current_dir, "diesel.toml", pr.fs)
        /\ pr.first.probes <= Len(pr.current_dir)
        /\ pr.second # NotSearched =>
              /\ NearestHolder(pr.second, pr.current_dir, "Cargo.toml", pr.fs)
              /\ pr.second.probes <= Len(pr.current_dir)

\* a search from the deepest directory that finds nothing up to the root, and
\* one that finds the file in a directory strictly above the start while a
\* directory off the way up holds it too
C33_Witness ==
    /\ pr.pc = "done" /\ pr.cwd_ok
    /\ pr.current_dir = Chain(MaxDepth)
    /\ ~pr.first.ok /\ pr.first.probes = Len(pr.current_dir)
    /\ join(<<"/", "x">>, <<"diesel.toml">>) \in pr.fs
    /\ pr.second.ok /\ pr.second.path = Chain(1)
    /\ join(<<"/">>, <<"Cargo.toml">>) \in pr.fs

\* C38: the project root is the nearest directory above the working directory
\* that holds diesel.toml whenever one exists, even with a Cargo.toml nearer
\* to the working directory; Cargo.toml is searched only when no directory on
\* the way up holds diesel.toml.
C38_DieselTomlBeforeCargoToml ==
    (pr.pc = "done" /\ pr.cwd_ok) =>
        IF Holders(pr.current_dir, "diesel.toml", pr.fs) # {}
        THEN /\ pr.result.ok
             /\ pr.result.path \in Holders(pr.current_dir, "diesel.toml", pr.fs)
             /\ \A d \in Holders(pr.current_dir, "diesel.toml", pr.fs) :
                   Len(d) <= Len(pr.result.path)
             /\ pr.second = NotSearched
        ELSE /\ pr.second # NotSearched
             /\ pr.result = pr.second

\* diesel.toml in the root only, Cargo.toml in the working directory itself:
\* the root is the project root
C38_Witness ==
    /\ pr.pc = "done" /\ pr.cwd_ok
    /\ pr.current_dir = Chain(MaxDepth)
    /\ Holders(pr.current_dir, "diesel.toml", pr.fs) = {Chain(0)}
    /\ Chain(MaxDepth) \in Holders(pr.current_dir, "Cargo.toml", pr.fs)
    /\ pr.result.ok /\ pr.result.path = Chain(0)

\* --------------------------- convert_absolute_path_to_relative (main.rs)
PlainNames == {"a", "b"}

\* relative paths of plain name components, up to MaxDepth of them
PlainPaths == UNION { [1..n -> PlainNames] : n \in 0..MaxDepth }

IsPrefix(a, b) == Len(a) <= Len(b) /\ SubSeq(b, 1, Len(a)) = a

\* dunce::canonicalize(path).unwrap_or_else(|_| path.to_owned()): the absolute
\* path of a path that exists (no symbolic links here), the path as given
\* when it does not exist
canonicalize(path, exists) ==
    IF path \in exists
    THEN IF is_relative(path) THEN join(CurrentDir, path) ELSE path
    ELSE path

\* the loop over the two component iterators
RECURSIVE relative_components(_, _, _)
relative_components(target_components, current_components, components) ==
    IF target_components = <<>> /\ current_components = <<>>
    THEN components
    ELSE IF current_components = <<>>
    THEN components \o target_components
    ELSE IF target_components = <<>>
    THEN relative_components(<<>>, Tail(current_components), Append(components, ".."))
    ELSE IF components = <<>> /\ Head(target_components) = Head(current_components)
    THEN relative_components(Tail(target_components), Tail(current_components), components)
    ELSE IF Head(current_components) = "."
    THEN relative_components(Tail(target_components), Tail(current_components),
                             Append(components, Head(target_components)))
    ELSE components \o <<"..">> \o [i \in 1..Len(Tail(current_components)) |-> ".."]
                    \o target_components

\* collect::<PathBuf>(): PathBuf::push of every component, and pushing a root
\* replaces what was pushed before
RECURSIVE collect(_, _)
collect(components, buf) ==
    IF components = <<>> THEN buf
    ELSE collect(Tail(components),
                 IF Head(components) = "/" THEN <<"/">> ELSE Append(buf, Head(components)))

convert_absolute_path_to_relative(target_path, current_path, exists) ==
    collect(relative_components(canonicalize(target_path, exists),
                                canonicalize(current_path, exists), <<>>), <<>>)

\* the two paths and which of them exist; a path cannot exist without the
\* directories it lies in, and the empty path names nothing
CvStart ==
    /\ cv.pc = "idle"
    /\ \E target \in PlainPaths, current \in PlainPaths, exists \in SUBSET PlainPaths :
          /\ exists \subseteq {target, current} \ {<<>>}
          /\ \A x \in exists, y \in {target, current} \ {<<>>} : IsPrefix(y, x) => y \in exists
          /\ cv' = [pc |-> "convert", target |-> target, current |-> current,
                    exists |-> exists, result |-> <<>>]
    /\ UNCHANGED <<genVars, engVars, rs, sd, pr>>

CvConvert ==
    /\ cv.pc = "convert"
    /\ cv' = [cv EXCEPT !.pc = "done",
                        !.result = convert_absolute_path_to_relative(cv.target, cv.current,
                                                                     cv.exists)]
    /\ UNCHANGED <<genVars, engVars, rs, sd, pr>>

CvExit ==
    /\ cv.pc = "done"
    /\ cv' = NoCv
    /\ UNCHANGED <<genVars, engVars, rs, sd, pr>>

NextConv ==
    \/ CvStart
    \/ CvConvert
    \/ CvExit

SpecConv == InitSpecDir /\ [][NextConv]_vars

\* ------------------------------ convert_absolute_path_to_relative (SpecConv)
RECURSIVE CommonPrefixLen(_, _)
CommonPrefixLen(a, b) ==
    IF a = <<>> \/ b = <<>> \/ Head(a) # Head(b) THEN 0
    ELSE 1 + CommonPrefixLen(Tail(a), Tail(b))

Beyond(path, other) == SubSeq(path, CommonPrefixLen(path, other) + 1, Len(path))

\* Path::join: an absolute path replaces the base
PathJoin(base, path) == IF is_relative(path) THEN base \o path ELSE path

\* lexical normalisation: a `..` removes the name before it
RECURSIVE Normalise(_, _)
Normalise(path, done) ==
    IF path = <<>> THEN done
    ELSE IF Head(path) = ".." /\ done # <<>> /\ done[Len(done)] \notin {"..", "/"}
    THEN Normalise(Tail(path), Front(done))
    ELSE IF Head(path) = ".." /\ done = <<"/">>
    THEN Normalise(Tail(path), done)
    ELSE Normalise(Tail(path), Append(done, Head(path)))

\* C34: for two paths of plain names the result is one `..` for each component
\* of current beyond the common prefix, then the components of target beyond
\* it; joining current with the result and normalising gives target; no `..`
\* when target lies under current, and the empty path when the two are equal.
C34_RelativePathRoundTrip ==
    cv.pc = "done" =>
        /\ cv.result = [i \in 1..Len(Beyond(cv.current, cv.target)) |-> ".."]
                           \o Beyond(cv.target, cv.current)
        /\ Normalise(PathJoin(cv.current, cv.result), <<>>) = cv.target
        /\ IsPrefix(cv.current, cv.target) => ".." \notin Range(cv.result)
        /\ cv.target = cv.current => cv.result = <<>>

\* the same statement for two paths that canonicalize alike: both exist or
\* neither does
C34_AlikeOnly ==
    (cv.pc = "done" /\ (cv.target \in cv.exists <=> cv.current \in cv.exists)
                    /\ cv.target # <<>> /\ cv.current # <<>>)
        => C34_RelativePathRoundTrip

\* ------------------------------- migrations_dir and diesel.toml (SpecDir)
\* C35: the configuration file is read only when neither the command line nor
\* MIGRATION_DIRECTORY gives the folder: with either of them given a
\* configuration file that cannot be read or parsed does not fail the
\* resolution; with both absent its error is the error of the resolution, and
\* the folder the search would find is not used.
C35_ConfigReadOnlyAsFallback ==
    rs.pc = "done" =>
        /\ (rs.migration_dir # None \/ rs.env.set) =>
              rs.result.err \notin {"IoError", "TomlError"}
        /\ ( /\ rs.migration_dir = None /\ ~rs.env.set
             /\ rs.config.state \in {"io_error", "toml_error"} ) =>
              rs.result = [err |-> Config_read(rs.config).err, path |-> None]

\* the same statement with MIGRATION_DIRECTORY given meaning set to valid
\* Unicode
C35_UnicodeOnly ==
    rs.pc = "done" =>
        /\ (rs.migration_dir # None \/ env_var(rs.env) # None) =>
              rs.result.err \notin {"IoError", "TomlError"}
        /\ ( /\ rs.migration_dir = None /\ env_var(rs.env) = None
             /\ rs.config.state \in {"io_error", "toml_error"} ) =>
              rs.result = [err |-> Config_read(rs.config).err, path |-> None]

\* ------------------------------------- the schema file (SpecEngineSchema)
\* the regeneration got as far as comparing the printed schema with the file
Compared ==
    /\ h.regen.fail = "none" /\ h.regen.file_configured /\ h.regen.old # None

\* C36 as stated: with locked_schema the regeneration after a successful Run,
\* Revert or Redo leaves the schema file as it was; a printed schema that
\* differs from the file gives SchemaWouldChange; what the command applied or
\* reverted stays.
C36_LockedSchemaNeverWrites ==
    (epc = "done" /\ h.regen.ran /\ h.regen.locked_schema) =>
        /\ h.regen.file = h.regen.old
        /\ (Compared /\ h.regen.schema # h.regen.old) => exit = "SchemaWouldChange"
        /\ applied = h.regen.applied_before

\* C36, amended: the comparison is of the lines of the two texts, so the
\* terminators of the lines do not count.
C36_LockedSchemaComparesLines ==
    (epc = "done" /\ h.regen.ran /\ h.regen.locked_schema) =>
        /\ h.regen.file = h.regen.old
        /\ Compared =>
              (exit = "SchemaWouldChange" <=> lines(h.regen.schema) # lines(h.regen.old))
        /\ applied = h.regen.applied_before

\* a Revert that took a version away and then met a schema file of another
\* schema under locked_schema
C36_Witness ==
    /\ epc = "done" /\ h.regen.ran /\ h.regen.locked_schema
    /\ cmd.kind = "revert" /\ Len(applied) < Len(h.applied0)
    /\ Compared /\ exit = "SchemaWouldChange"
    /\ h.regen.file = <<"b", "\n">> /\ h.regen.schema = <<"a", "\n">>

\* ------------------------------------- the diff of Generate (SpecGenSeq)
DiffErrors == {"NoSchemaKeyFound", "DiffSchemaError"}

\* C37: with --diff-schema the diff comes before the version and before the
\* entry directory: an invocation whose diff step failed (no such schema key,
\* no schema file configured, an error of the differ) has read no listing,
\* has no version and has created no entry; the entries of the store are
\* those it found.
C37_DiffFailsBeforeEntry ==
    \A p \in Procs :
        result[p] \in DiffErrors =>
            /\ pc[p] = "done" /\ args[p].schema_rs
            /\ loc[p].version = <<>> /\ loc[p].folders = {} /\ loc[p].path = <<>>
            /\ dirs = loc[p].dirs0

\* a failed diff on a store that already holds an entry
C37_Witness ==
    \E p \in Procs :
        /\ result[p] \in DiffErrors /\ pc[p] = "done"
        /\ loc[p].dirs0 # {} /\ dirs = loc[p].dirs0

====
